---- MODULE Spec2Model ----
(***************************************************************************)
(* Verification model of the comment harvester and the scoring layer of    *)
(* naijavibecheck:                                                         *)
(*   RobustInstagramScraper  (app/services/scraper/robust_scraper.py)      *)
(*   VibeCheckPipeline       (app/services/vibe_check_pipeline.py)         *)
(*   RateLimiter             (app/services/scraper/rate_limiter.py)        *)
(*   CommentSelector         (app/services/analyzer/comment_selector.py)   *)
(*   ViralScorer             (app/services/analyzer/viral_scorer.py)       *)
(*   AnalysisPipeline        (app/services/analyzer/analysis_pipeline.py)  *)
(*   CostEffectiveAnalyzer   (app/services/analyzer/                       *)
(*                            cost_effective_analyzer.py)                  *)
(*   RobustSentimentAnalyzer (app/services/analyzer/robust_analyzer.py)    *)
(* The specifications of the module:                                       *)
(*   Spec            the harvest (scrape_all_comments under                *)
(*                   run_full_analysis)                                    *)
(*   SpecBackoff     the backoff controller (_handle_rate_limit)           *)
(*   SpecLimiter     the Redis-backed rate governor with concurrent callers*)
(*   SpecSelector    one call of select_top_comments                       *)
(*   SpecViral       two calls of calculate_viral_score                    *)
(*   SpecControversy two calls of _calculate_controversy_score             *)
(*   SpecAnalyzer    full_analysis with its hosted-model call              *)
(*   SpecCheckpoint  the checkpoint file under a save, a crash and a load  *)
(*   SpecSentiment   one call of _local_sentiment                          *)
(*   SpecRobust      analyze_all_comments of RobustSentimentAnalyzer       *)
(*   SpecTimeLimit   one harvest under a configured hour budget            *)
(*   SpecPacing      _smart_delay on the scraper objects of two harvests   *)
(***************************************************************************)
EXTENDS Integers, Sequences, FiniteSets, TLC

(***************************************************************************)
(* Bounds of the model.                                                    *)
(***************************************************************************)
MaxPages == 3          \* pages the source serves before has_next_page is false
MaxMaxComments == 2    \* largest max_comments argument tried (0 = unlimited)
checkpoint_interval == 4  \* config['checkpoint_interval'], scaled from 500
CountCap == 3          \* the request and batch counters saturate here
MaxPageNodes == 2      \* most comments one response page adds (see PageChoices)
MaxFailures == 12      \* consecutive failures tried on one scraper object
JitterSteps == 4       \* jitter draws tried between 0 and 20% of the backoff
NumCallers == 2        \* concurrent callers of one RateLimiter identity
MaxPerHour == 2        \* max_requests_per_hour, scaled from 100
MaxPerDay == 3         \* max_requests_per_day, scaled from 500
StartSlot == 10        \* clock slot at which the behaviour starts
MaxTime == 12          \* last clock slot of the behaviour
MaxSelLen == 3         \* longest analyzed_comments list given to the selector
MaxTopN == 3           \* largest top_n tried (3 is the default)
MaxClassCount == 3     \* most comments of one sentiment class in the stats
MaxAnalyzed == 4       \* longest comment list given to full_analysis
sample_size == 5       \* sample_size of enhance_with_claude, scaled from 200
PromptLimit == 2       \* comments written into the prompt, scaled from 100
MaxDocComments == 2    \* comments in a checkpoint document of the file model
MaxIndicatorWords == 2 \* indicator words of one list found in a text
MaxEmojis == 1         \* emojis of one class found in a text
MaxRobustTotal == 3    \* comments given to analyze_all_comments
batch_size == 2        \* config['batch_size'], scaled from 30
max_batch_retries == 2 \* config['max_batch_retries'], scaled from 3
analyzer_max_retries == 3  \* config['max_retries'] of the analyzer, scaled from 10
analysis_checkpoint_interval == 2  \* its config['checkpoint_interval'], from 200
MaxBatchCount == 3     \* batch_count is counted up to this value
requests_before_long_pause == 2  \* config value of the scraper, scaled from 100
max_requests_per_hour == 3  \* config value of the scraper, scaled from 200
MaxRequestCount == 6   \* requests one scraper object is followed for
HourTicks == 2         \* ticks of the wall clock in one hour
MaxWall == 4           \* last tick of the wall clock

(***************************************************************************)
(* Program constants (DEFAULT_CONFIG and literals of the source).          *)
(***************************************************************************)
delay_after_rate_limit == 60
max_delay_after_rate_limit == 900
backoff_multiplier == 2
max_retries == 10
KeyPrefixLen == 50
TextLimit == 500
SlotSeconds == 300           \* the longest hourly sleep, one clock slot
HourSeconds == 3600
DaySeconds == 86400
InitialBackoffSeconds == 60
MaxBackoffSeconds == 3600
min_length == 10
max_length == 300
ideal_length == 100
SimilarityNum == 6           \* the threshold 0.6 as SimilarityNum / SimilarityDen
SimilarityDen == 10

(***************************************************************************)
(* Comments.  A text is a sequence of characters (small integers); an id   *)
(* of NoId stands for a missing / falsy id.                                *)
(***************************************************************************)
NoId == ""
NoCursor == 0

Take(s, n) == SubSeq(s, 1, IF Len(s) < n THEN Len(s) ELSE n)

ShortText == <<1, 2, 3>>
LongTextY == [i \in 1..(KeyPrefixLen + 1) |-> IF i <= KeyPrefixLen THEN 7 ELSE 8]
LongTextZ == [i \in 1..(KeyPrefixLen + 1) |-> IF i <= KeyPrefixLen THEN 7 ELSE 9]

CommentA == [id |-> "c1", username |-> "ada",  text |-> ShortText]
CommentB == [id |-> NoId, username |-> "bola", text |-> LongTextY]
CommentC == [id |-> NoId, username |-> "bola", text |-> LongTextZ]
CommentE == [id |-> "c2", username |-> "chi",  text |-> <<>>]

\* The comment and reply nodes of one response page, flattened in the order
\* in which the parsing loop visits them.
PageChoices == { <<CommentA, CommentB>>, <<CommentC, CommentE>> }

\* cid = c.get('id') or f"{c['username']}:{c['text'][:50]}"
DedupKey(c) ==
    IF c.id # NoId THEN <<"id", c.id>>
    ELSE <<"ut", c.username, Take(c.text, KeyPrefixLen)>>

Keys(s) == [i \in 1..Len(s) |-> DedupKey(s[i])]

NoDuplicateKeys(ks) == \A i, j \in 1..Len(ks) : i # j => ks[i] # ks[j]

\* if comment['username'] and comment['text']: all_comments.append(comment)
RECURSIVE AppendValid(_, _)
AppendValid(acc, nodes) ==
    IF nodes = <<>> THEN acc
    ELSE LET c == Head(nodes) IN
         AppendValid(IF c.username # "" /\ c.text # <<>> THEN Append(acc, c) ELSE acc,
                     Tail(nodes))

\* the seen_ids loop of the final formatting step
RECURSIVE UniqueFrom(_, _, _)
UniqueFrom(s, i, acc) ==
    IF i > Len(s) THEN acc
    ELSE IF \E j \in 1..Len(acc) : DedupKey(acc[j]) = DedupKey(s[i])
         THEN UniqueFrom(s, i + 1, acc)
         ELSE UniqueFrom(s, i + 1, Append(acc, s[i]))

Unique(s) == UniqueFrom(s, 1, <<>>)

FormatComment(c) == [username |-> c.username, text |-> Take(c.text, TextLimit)]

FormatAll(s) == [i \in 1..Len(s) |-> FormatComment(s[i])]

(***************************************************************************)
(* Backoff controller: the pure part of _handle_rate_limit.                *)
(***************************************************************************)
RECURSIVE Pow(_, _)
Pow(b, e) == IF e = 0 THEN 1 ELSE b * Pow(b, e - 1)

Min(a, b) == IF a < b THEN a ELSE b

\* mutant of BackoffFor: the exponent is the failure count itself
BackoffForOffByOne(current, errors) ==
    Min(current * Pow(backoff_multiplier, errors), max_delay_after_rate_limit)

\* backoff = min(_current_backoff * multiplier ** (errors - 1), max_delay)
BackoffFor(current, errors) ==
    Min(current * Pow(backoff_multiplier, errors - 1), max_delay_after_rate_limit)

\* jitter = random.uniform(0, backoff * 0.2), in whole seconds
JitterRange(backoff) == 0..((backoff * 2) \div 10)

\* total_wait = backoff + jitter
TotalWait(backoff, jitter) == backoff + jitter

\* return value of _handle_rate_limit: False = stop, True = retry
ShouldContinue(errors) == ~(errors >= max_retries)

(***************************************************************************)
(* State of the harvest.                                                   *)
(***************************************************************************)
VARIABLES
    pc,                    \* position of scrape_all_comments
    run,                   \* "none", then the "first" invocation of
                           \* scrape_all_comments, then its one "rerun"
    resume, max_comments,  \* arguments of the current invocation
    all_comments, end_cursor, has_next, batch_count, last_checkpoint_count,
    consecutive_errors,    \* self._consecutive_errors
    checkpoint,            \* the checkpoint file of the shortcode
    result,                \* what the invocation returned or raised
    pipeline,              \* status returned by run_full_analysis
    caller,                \* "pipeline" (run_full_analysis) or "direct"
    loaded,                \* history: the checkpoint the invocation resumed from
    requests,              \* history: page requests issued by the invocation
    reqCursor, prevCursor, \* history: cursor of the last two requests
    lastOutcome,           \* history: how the last step of the harvest ended
                           \* ("failure" = any recoverable failure)
    saves,                 \* history: _save_checkpoint calls of the invocation
    cursor_count,          \* history: len(all_comments) when end_cursor got its value
    called_back,           \* history: the step just taken invoked progress_callback
    max_scrape_time_hours, \* config['max_scrape_time_hours'] of the invocation
    elapsed_hours          \* whole hours since start_time, counted up to LongestBudget

hvars == <<pc, run, resume, max_comments, all_comments, end_cursor, has_next,
           batch_count, last_checkpoint_count, consecutive_errors, checkpoint,
           result, pipeline, caller, loaded, requests, reqCursor, prevCursor,
           lastOutcome, saves,
           cursor_count,
           called_back,
           max_scrape_time_hours,
           elapsed_hours>>

\* state of the backoff controller
VARIABLES
    current_backoff,       \* self._current_backoff
    lastWait, prevWait,    \* history: total_wait of the last two failures
    lastJitter,            \* history: jitter drawn by the last failure
    lastContinue,          \* history: last return value of _handle_rate_limit
    resetSeen              \* history: _reset_backoff has run

bvars == <<current_backoff, lastWait, prevWait, lastJitter, lastContinue,
           resetSeen>>

\* state of the rate governor (RateLimiter and its callers)
VARIABLES
    now,                   \* wall clock, in slots of SlotSeconds
    hourCount, dayCount,   \* the Redis counters, by hour and by day index
    backoff_until,         \* self._backoff_until (NoTime = None)
    backoff_seconds,       \* self._backoff_seconds
    cpc,                   \* position of each caller
    hour_key, day_key,     \* keys computed by wait_if_needed
    hour_count, day_count, \* values read by wait_if_needed
    wake                   \* end of the caller's current sleep

lvars == <<now, hourCount, dayCount, backoff_until, backoff_seconds, cpc,
           hour_key, day_key, hour_count, day_count, wake>>


hrest == <<pc, run, resume, max_comments, all_comments, end_cursor, has_next,
           batch_count, last_checkpoint_count, checkpoint, result, pipeline,
           caller, loaded, requests, reqCursor, prevCursor, lastOutcome, saves,
           cursor_count,
           called_back,
           max_scrape_time_hours,
           elapsed_hours>>

\* CommentSelector.select_top_comments: the last call and what it returned
VARIABLES
    sel_called,        \* select_top_comments was called
    sel_comments,      \* analyzed_comments of the call
    sel_top_n,         \* top_n of the call
    top_positive,      \* first list returned
    top_negative       \* second list returned

svars == <<sel_called, sel_comments, sel_top_n, top_positive, top_negative>>

\* ViralScorer.calculate_viral_score: the last two calls, each with its
\* arguments, its sub-scores and the score returned
VARIABLES
    viral_cur,         \* the latest call
    viral_prev         \* the call before it

vvars == <<viral_cur, viral_prev>>

\* AnalysisPipeline._calculate_controversy_score: the last two calls, each
\* with the stats it was given and the score returned
VARIABLES
    ctr_cur,           \* the latest call
    ctr_prev           \* the call before it

cvars == <<ctr_cur, ctr_prev>>

\* CostEffectiveAnalyzer.full_analysis under run_full_analysis
VARIABLES
    an_pc,             \* "idle", "sample", "call", "done", "returned"
    an_name,           \* celebrity_name
    an_comments,       \* the comments after analyze_bulk_free
    an_sample,         \* sample of enhance_with_claude: indices into an_comments
    an_reply,          \* what the hosted-model call did
    an_result,         \* what full_analysis returned (or that it raised)
    an_status          \* status of run_full_analysis

evars == <<an_pc, an_name, an_comments, an_sample, an_reply, an_result, an_status>>

\* The checkpoint file of one shortcode, as _save_checkpoint writes it and
\* _load_checkpoint reads it
VARIABLES
    ck_pc,             \* "idle", or "writing" inside _save_checkpoint
    ck_exists,         \* checkpoint_path.exists()
    ck_file,           \* the tokens in the file
    ck_old,            \* the document the file held before the latest save
    ck_new,            \* the document of the latest save
    ck_load            \* what the latest _load_checkpoint read and returned

kvars == <<ck_pc, ck_exists, ck_file, ck_old, ck_new, ck_load>>

\* CostEffectiveAnalyzer._local_sentiment: the last call, with what it counted
\* in the text and what it returned
VARIABLES
    ls_cur             \* the latest call

nvars == <<ls_cur>>

\* RobustSentimentAnalyzer.analyze_all_comments with its _analyze_batch
VARIABLES
    ra_pc,             \* "idle", "loop", "call", "done"
    ra_total,          \* len(comments)
    ra_time_limited,   \* config['max_analysis_time_hours'] > 0
    pending_indices,   \* indices not yet settled, in order
    ra_sentiment,      \* sentiment of each comment, "" while it has none
    batch_indices,     \* the indices of the batch under analysis
    ra_batch_count,    \* batch_count, counted up to MaxBatchCount
    retry_count,       \* retry_count of the running _analyze_batch
    ra_calls,          \* hosted-model calls made for the current batch
    ra_errors,         \* _consecutive_errors
    ra_last_checkpoint_count, \* last_checkpoint_count
    ra_saved,          \* the analysis checkpoint on disk
    ra_removed         \* indices the latest finished iteration removed

rvars == <<ra_pc, ra_total, ra_time_limited, pending_indices, ra_sentiment,
           batch_indices, ra_batch_count, retry_count, ra_calls, ra_errors,
           ra_last_checkpoint_count, ra_saved, ra_removed>>

\* the components outside the harvest, the governor and the scoring layer
xvars == <<kvars, nvars, rvars>>

\* RobustInstagramScraper._smart_delay on the scraper objects of two harvests
\* that run at the same time under one account
VARIABLES
    wall,                  \* time.time(), in ticks of which HourTicks are an hour
    sd_pc,                 \* position of each object inside _smart_delay
    request_count,         \* self._request_count of each object
    hour_request_count,    \* self._hour_request_count of each object
    hour_start,            \* self._hour_start of each object
    cap_wake,              \* end of the object's sleep on the hourly cap
    since_pause,           \* history: requests counted since the object's
                           \* last cooldown pause
    seen                   \* history: requests of the account, by any object,
                           \* inside the object's current hour window

pvars == <<wall, sd_pc, request_count, hour_request_count, hour_start,
           cap_wake, since_pause, seen>>

\* the state of the scoring and aggregation layer
avars == <<svars, vvars, cvars, evars, xvars>>

Unbound == -1
NoCheckpoint == [exists |-> FALSE, comments |-> <<>>, end_cursor |-> NoCursor,
                 completed |-> FALSE]
NoResult == [kind |-> "none", comments |-> <<>>, keys |-> <<>>, reason |-> "none"]

Recoverable == {"http429", "http_other", "api_errors", "timeout", "client_error"}

\* DEFAULT_CONFIG['max_scrape_time_hours']: no budget
DefaultScrapeTime == 0

\* the hour budgets a caller may configure instead
ScrapeTimeChoices == {DefaultScrapeTime, 1}
LongestBudget == CHOOSE b \in ScrapeTimeChoices : \A c \in ScrapeTimeChoices : c <= b

ScrapeTimeExceededAnyBudget(budget, elapsed) == elapsed >= budget

\* lines 335-340: the time-limit test at the top of an iteration
ScrapeTimeExceeded(budget, elapsed) == budget > 0 /\ elapsed >= budget

HarvestInit ==
    /\ pc = "idle" /\ run = "none"
    /\ resume = TRUE /\ max_comments = 0
    /\ all_comments = <<>> /\ end_cursor = NoCursor /\ has_next = FALSE
    /\ batch_count = Unbound /\ last_checkpoint_count = 0
    /\ consecutive_errors = 0
    /\ checkpoint = NoCheckpoint
    /\ result = NoResult /\ pipeline = "none" /\ caller = "direct"
    /\ loaded = NoCheckpoint /\ requests = 0 /\ reqCursor = NoCursor
    /\ prevCursor = NoCursor /\ lastOutcome = "none" /\ saves = 0
    /\ cursor_count = 0
    /\ called_back = FALSE
    /\ max_scrape_time_hours = 0
    /\ elapsed_hours = 0

\* _save_checkpoint(shortcode, comments, end_cursor, metadata)
SavedCheckpoint(comments, cursor, completed) ==
    [exists |-> TRUE, comments |-> comments, end_cursor |-> cursor,
     completed |-> completed]

\* lines 478-512: final checkpoint, dedup, format, return
Finalize(comments, cursor, more, extraSaves) ==
    /\ checkpoint' = SavedCheckpoint(comments, cursor, ~more)
    /\ saves' = saves + extraSaves + 1
    /\ result' = [kind |-> "ok", comments |-> FormatAll(Unique(comments)),
                  keys |-> Keys(Unique(comments)), reason |-> "none"]
    /\ pc' = "done"

\* lines 514-525: the except branch once batch_count is bound
ErrorExit(comments, cursor) ==
    /\ checkpoint' = SavedCheckpoint(comments, cursor, FALSE)
    /\ saves' = saves + 1
    /\ result' = [kind |-> "error", comments |-> comments,
                  keys |-> Keys(comments), reason |-> "exception"]
    /\ pc' = "done"

\* lines 241-257: initialise, load the checkpoint, open the page
Call(r, m, via, initOk, budget) ==
    /\ pc \in {"idle", "returned"}
    /\ run # "rerun"
    /\ run' = IF run = "none" THEN "first" ELSE "rerun"
    /\ resume' = r /\ max_comments' = m /\ caller' = via
    /\ consecutive_errors' = IF via = "pipeline" THEN 0 ELSE consecutive_errors
    /\ pipeline' = "none"
    /\ batch_count' = Unbound /\ last_checkpoint_count' = 0 /\ has_next' = FALSE
    /\ requests' = 0 /\ reqCursor' = NoCursor /\ prevCursor' = NoCursor
    /\ lastOutcome' = "none" /\ saves' = 0
    /\ IF ~initOk
       THEN /\ result' = [kind |-> "error", comments |-> <<>>, keys |-> <<>>,
                          reason |-> "init"]
            /\ all_comments' = <<>> /\ end_cursor' = NoCursor
            /\ loaded' = NoCheckpoint
            /\ pc' = "done"
       ELSE /\ result' = NoResult
            /\ IF r /\ checkpoint.exists
               THEN /\ all_comments' = checkpoint.comments
                    /\ end_cursor' = checkpoint.end_cursor
                    /\ loaded' = checkpoint
               ELSE /\ all_comments' = <<>> /\ end_cursor' = NoCursor
                    /\ loaded' = NoCheckpoint
            /\ pc' = "post"
    /\ UNCHANGED checkpoint
    /\ cursor_count' = Len(all_comments')
    /\ called_back' = FALSE
    /\ max_scrape_time_hours' = budget
    /\ elapsed_hours' = 0
    /\ UNCHANGED <<bvars, lvars, avars, pvars>>

\* lines 259-326: load the post, read media_id and the comment count
FetchPost(outcome) ==
    /\ pc = "post"
    /\ lastOutcome' = outcome
    /\ CASE outcome = "exception" ->
              \* the except branch reads batch_count before it is assigned
              /\ result' = [kind |-> "raised", comments |-> <<>>, keys |-> <<>>,
                            reason |-> "UnboundLocalError"]
              /\ pc' = "done"
              /\ UNCHANGED <<has_next, batch_count, last_checkpoint_count>>
         [] outcome = "no_media_id" ->
              /\ result' = [kind |-> "error", comments |-> all_comments,
                            keys |-> Keys(all_comments), reason |-> "media_id"]
              /\ pc' = "done"
              /\ UNCHANGED <<has_next, batch_count, last_checkpoint_count>>
         [] outcome = "post_ok" ->
              /\ has_next' = TRUE /\ batch_count' = 0
              /\ last_checkpoint_count' = Len(all_comments)
              /\ pc' = "loop"
              /\ UNCHANGED result
    /\ UNCHANGED <<run, resume, max_comments, all_comments, end_cursor,
                   consecutive_errors, checkpoint, pipeline, caller, loaded,
                   requests, reqCursor, prevCursor, saves>>
    /\ UNCHANGED cursor_count
    /\ called_back' = FALSE
    /\ UNCHANGED <<max_scrape_time_hours, elapsed_hours>>
    /\ UNCHANGED <<bvars, lvars, avars, pvars>>

\* mutant of MaxCommentsReached: the limit is tested with > instead of >=
MaxCommentsReachedStrict(limit, count) == limit > 0 /\ count > limit

\* line 331: if max_comments > 0 and len(all_comments) >= max_comments
MaxCommentsReached(limit, count) == limit > 0 /\ count >= limit

\* lines 331-333: the max_comments check at the top of the loop
\* the clock moves on while the invocation loads the post, sleeps in a
\* backoff or waits for a response
HourPasses ==
    /\ pc \in {"post", "loop", "request"}
    /\ elapsed_hours < LongestBudget
    /\ elapsed_hours' = elapsed_hours + 1
    /\ UNCHANGED <<pc, run, resume, max_comments, all_comments, end_cursor,
                   has_next, batch_count, last_checkpoint_count,
                   consecutive_errors, checkpoint, result, pipeline, caller,
                   loaded, requests, reqCursor, prevCursor, lastOutcome, saves,
                   cursor_count, called_back, max_scrape_time_hours>>
    /\ UNCHANGED <<bvars, lvars, avars, pvars>>

MaxReached ==
    /\ pc = "loop"
    /\ MaxCommentsReached(max_comments, Len(all_comments))
    /\ lastOutcome' = "max_reached"
    /\ Finalize(all_comments, end_cursor, has_next, 0)
    /\ UNCHANGED <<run, resume, max_comments, all_comments, end_cursor, has_next,
                   batch_count, last_checkpoint_count, consecutive_errors,
                   pipeline, caller, loaded, requests, reqCursor, prevCursor>>
    /\ UNCHANGED cursor_count
    /\ called_back' = FALSE
    /\ UNCHANGED <<max_scrape_time_hours, elapsed_hours>>
    /\ UNCHANGED <<bvars, lvars, avars, pvars>>

\* lines 335-340: the break on the time limit, then lines 478-512
TimeLimitStop ==
    /\ pc = "loop"
    /\ ~MaxCommentsReached(max_comments, Len(all_comments))
    /\ ScrapeTimeExceeded(max_scrape_time_hours, elapsed_hours)
    /\ lastOutcome' = "time_limit"
    /\ Finalize(all_comments, end_cursor, has_next, 0)
    /\ UNCHANGED <<run, resume, max_comments, all_comments, end_cursor, has_next,
                   batch_count, last_checkpoint_count, consecutive_errors,
                   pipeline, caller, loaded, requests, reqCursor, prevCursor>>
    /\ UNCHANGED cursor_count
    /\ called_back' = FALSE
    /\ UNCHANGED <<max_scrape_time_hours, elapsed_hours>>
    /\ UNCHANGED <<bvars, lvars, avars, pvars>>

Bump(n) == IF n < CountCap THEN n + 1 ELSE n

\* lines 329-360: both limit tests pass; count the batch, delay, send the
\* page request. Under a budget the sleep of _smart_delay may end in the
\* next hour, after the test and before the request goes out
IssueRequest ==
    /\ pc = "loop"
    /\ ~MaxCommentsReached(max_comments, Len(all_comments))
    /\ ~ScrapeTimeExceeded(max_scrape_time_hours, elapsed_hours)
    /\ batch_count' = Bump(batch_count)
    /\ requests' = Bump(requests)
    /\ prevCursor' = reqCursor /\ reqCursor' = end_cursor
    /\ lastOutcome' = "pending"
    /\ pc' = "request"
    /\ UNCHANGED <<run, resume, max_comments, all_comments, end_cursor, has_next,
                   last_checkpoint_count, consecutive_errors, checkpoint, result,
                   pipeline, caller, loaded, saves>>
    /\ UNCHANGED cursor_count
    /\ called_back' = FALSE
    /\ UNCHANGED max_scrape_time_hours
    /\ elapsed_hours' \in {elapsed_hours,
                          Min(elapsed_hours + 1, max_scrape_time_hours)}
    /\ UNCHANGED <<bvars, lvars, avars, pvars>>

\* mutant of RecoverableFailure: a timed-out page is given up and the
\* harvest moves on to the next cursor
RecoverableFailureSkipsPage(kind) ==
    /\ pc = "request"
    /\ kind \in Recoverable
    /\ consecutive_errors' = consecutive_errors + 1
    /\ lastOutcome' = "failure"
    /\ end_cursor' = IF kind = "timeout" THEN reqCursor + 1 ELSE end_cursor
    /\ IF ShouldContinue(consecutive_errors')
       THEN /\ pc' = "loop"
            /\ UNCHANGED <<checkpoint, result, saves>>
       ELSE Finalize(all_comments, end_cursor', has_next, 0)
    /\ UNCHANGED <<run, resume, max_comments, all_comments, has_next,
                   batch_count, last_checkpoint_count, pipeline, caller, loaded,
                   requests, reqCursor, prevCursor>>
    /\ UNCHANGED cursor_count
    /\ called_back' = FALSE
    /\ UNCHANGED <<max_scrape_time_hours, elapsed_hours>>
    /\ UNCHANGED <<bvars, lvars, avars, pvars>>

\* lines 361-366, 372-377, 382-387, 464-476: _handle_rate_limit, then
\* continue or break
RecoverableFailure(kind) ==
    /\ pc = "request"
    /\ kind \in Recoverable
    /\ consecutive_errors' = consecutive_errors + 1
    /\ lastOutcome' = "failure"
    /\ IF ShouldContinue(consecutive_errors')
       THEN /\ pc' = "loop"
            /\ UNCHANGED <<checkpoint, result, saves>>
       ELSE Finalize(all_comments, end_cursor, has_next, 0)
    /\ UNCHANGED <<run, resume, max_comments, all_comments, end_cursor, has_next,
                   batch_count, last_checkpoint_count, pipeline, caller, loaded,
                   requests, reqCursor, prevCursor>>
    /\ UNCHANGED cursor_count
    /\ called_back' = FALSE
    /\ UNCHANGED <<max_scrape_time_hours, elapsed_hours>>
    /\ UNCHANGED <<bvars, lvars, avars, pvars>>

\* mutant of AuthRejected: HTTP 401 is handled like the other non-200
\* answers, through _handle_rate_limit and a retry
AuthRejectedBacksOff ==
    /\ pc = "request"
    /\ lastOutcome' = "http401"
    /\ consecutive_errors' = consecutive_errors + 1
    /\ IF ShouldContinue(consecutive_errors')
       THEN /\ pc' = "loop"
            /\ UNCHANGED <<checkpoint, result, saves>>
       ELSE Finalize(all_comments, end_cursor, has_next, 0)
    /\ UNCHANGED <<run, resume, max_comments, all_comments, end_cursor, has_next,
                   batch_count, last_checkpoint_count, pipeline, caller, loaded,
                   requests, reqCursor, prevCursor>>
    /\ UNCHANGED cursor_count
    /\ called_back' = FALSE
    /\ UNCHANGED <<max_scrape_time_hours, elapsed_hours>>
    /\ UNCHANGED <<bvars, lvars, avars, pvars>>

\* lines 368-370: HTTP 401
AuthRejected ==
    /\ pc = "request"
    /\ lastOutcome' = "http401"
    /\ Finalize(all_comments, end_cursor, has_next, 0)
    /\ UNCHANGED <<run, resume, max_comments, all_comments, end_cursor, has_next,
                   batch_count, last_checkpoint_count, consecutive_errors,
                   pipeline, caller, loaded, requests, reqCursor, prevCursor>>
    /\ UNCHANGED cursor_count
    /\ called_back' = FALSE
    /\ UNCHANGED <<max_scrape_time_hours, elapsed_hours>>
    /\ UNCHANGED <<bvars, lvars, avars, pvars>>

\* lines 379, 514-525: the body is not JSON (json.JSONDecodeError is not an
\* aiohttp.ClientError), caught by the outer handler
BadBody ==
    /\ pc = "request"
    /\ lastOutcome' = "bad_body"
    /\ ErrorExit(all_comments, end_cursor)
    /\ UNCHANGED <<run, resume, max_comments, all_comments, end_cursor, has_next,
                   batch_count, last_checkpoint_count, consecutive_errors,
                   pipeline, caller, loaded, requests, reqCursor, prevCursor>>
    /\ UNCHANGED cursor_count
    /\ called_back' = FALSE
    /\ UNCHANGED <<max_scrape_time_hours, elapsed_hours>>
    /\ UNCHANGED <<bvars, lvars, avars, pvars>>

\* lines 389-401: a 200 response without edges
EmptyPage ==
    /\ pc = "request"
    /\ lastOutcome' = "empty"
    /\ consecutive_errors' = 0
    /\ has_next' = FALSE
    /\ Finalize(all_comments, end_cursor, FALSE, 0)
    /\ UNCHANGED <<run, resume, max_comments, all_comments, end_cursor,
                   batch_count, last_checkpoint_count, pipeline, caller, loaded,
                   requests, reqCursor, prevCursor>>
    /\ UNCHANGED cursor_count
    /\ called_back' = FALSE
    /\ UNCHANGED <<max_scrape_time_hours, elapsed_hours>>
    /\ UNCHANGED <<bvars, lvars, avars, pvars>>

\* lines 389-401: a 200 response whose JSON lacks data, shortcode_media or
\* edge_media_to_parent_comment; every .get falls back to {} and edges = []
MalformedPage ==
    /\ pc = "request"
    /\ lastOutcome' = "malformed"
    /\ consecutive_errors' = 0
    /\ has_next' = FALSE
    /\ Finalize(all_comments, end_cursor, FALSE, 0)
    /\ UNCHANGED <<run, resume, max_comments, all_comments, end_cursor,
                   batch_count, last_checkpoint_count, pipeline, caller, loaded,
                   requests, reqCursor, prevCursor>>
    /\ UNCHANGED cursor_count
    /\ called_back' = FALSE
    /\ UNCHANGED <<max_scrape_time_hours, elapsed_hours>>
    /\ UNCHANGED <<bvars, lvars, avars, pvars>>

NextCursor == reqCursor + 1

\* mutant of CheckpointDue: the interval is tested with > instead of >=
CheckpointDueLate(count, last) == count - last > checkpoint_interval

\* line 457: len(all_comments) - last_checkpoint_count >= checkpoint_interval
CheckpointDue(count, last) == count - last >= checkpoint_interval

\* lines 389-462: a 200 response with edges, parsed to the end
PageParsed(nodes, more, cursor) ==
    /\ pc = "request"
    /\ nodes \in PageChoices
    /\ more = (NextCursor < MaxPages)
    /\ cursor \in (IF more THEN {NextCursor} ELSE {NextCursor, NoCursor})
    /\ lastOutcome' = "page"
    /\ consecutive_errors' = 0
    /\ all_comments' = AppendValid(all_comments, nodes)
    /\ has_next' = more
    /\ end_cursor' = cursor
    /\ LET periodic == CheckpointDue(Len(all_comments'), last_checkpoint_count)
       IN  /\ last_checkpoint_count' =
                 IF periodic THEN Len(all_comments') ELSE last_checkpoint_count
           /\ IF more
              THEN /\ pc' = "loop"
                   /\ checkpoint' =
                        IF periodic
                        THEN SavedCheckpoint(all_comments', cursor, FALSE)
                        ELSE checkpoint
                   /\ saves' = IF periodic THEN saves + 1 ELSE saves
                   /\ UNCHANGED result
              ELSE Finalize(all_comments', cursor, FALSE, IF periodic THEN 1 ELSE 0)
    /\ UNCHANGED <<run, resume, max_comments, batch_count, pipeline, caller,
                   loaded, requests, reqCursor, prevCursor>>
    /\ cursor_count' = Len(all_comments')
    /\ called_back' = TRUE
    /\ UNCHANGED <<max_scrape_time_hours, elapsed_hours>>
    /\ UNCHANGED <<bvars, lvars, avars, pvars>>

\* lines 403-434, 514-525: an exception while the edges are read (for
\* instance a node whose owner is null) after k nodes were handled
ParseException(nodes, k) ==
    /\ pc = "request"
    /\ nodes \in PageChoices
    /\ k \in 0..(Len(nodes) - 1)
    /\ lastOutcome' = "parse_exception"
    /\ consecutive_errors' = 0
    /\ all_comments' = AppendValid(all_comments, SubSeq(nodes, 1, k))
    /\ ErrorExit(all_comments', end_cursor)
    /\ UNCHANGED <<run, resume, max_comments, end_cursor, has_next, batch_count,
                   last_checkpoint_count, pipeline, caller, loaded, requests,
                   reqCursor, prevCursor>>
    /\ UNCHANGED cursor_count
    /\ called_back' = FALSE
    /\ UNCHANGED <<max_scrape_time_hours, elapsed_hours>>
    /\ UNCHANGED <<bvars, lvars, avars, pvars>>

\* lines 436-454, 514-525: an exception after the pagination update (the
\* progress callback or the progress log line raises)
LateException(nodes, more, cursor) ==
    /\ pc = "request"
    /\ nodes \in PageChoices
    /\ more = (NextCursor < MaxPages)
    /\ cursor \in (IF more THEN {NextCursor} ELSE {NextCursor, NoCursor})
    /\ lastOutcome' = "late_exception"
    /\ consecutive_errors' = 0
    /\ all_comments' = AppendValid(all_comments, nodes)
    /\ has_next' = more
    /\ end_cursor' = cursor
    /\ ErrorExit(all_comments', cursor)
    /\ UNCHANGED <<run, resume, max_comments, batch_count, last_checkpoint_count,
                   pipeline, caller, loaded, requests, reqCursor, prevCursor>>
    /\ cursor_count' = Len(all_comments')
    /\ called_back' = TRUE
    /\ UNCHANGED <<max_scrape_time_hours, elapsed_hours>>
    /\ UNCHANGED <<bvars, lvars, avars, pvars>>

\* vibe_check_pipeline.py lines 113-131, 170-187, 251-252 and
\* cost_effective_analyzer.py lines 181-194
PipelineStatus(res) ==
    IF res.kind = "raised" THEN "raised"
    ELSE IF res.kind = "error" /\ res.comments = <<>> THEN "failed"
    ELSE IF res.comments = <<>> THEN "raised"
    ELSE "complete"

\* the invocation returns to its caller
Return ==
    /\ pc = "done"
    /\ pipeline' = IF caller = "pipeline" THEN PipelineStatus(result) ELSE "none"
    /\ pc' = "returned"
    /\ UNCHANGED <<run, resume, max_comments, all_comments, end_cursor, has_next,
                   batch_count, last_checkpoint_count, consecutive_errors,
                   checkpoint, result, caller, loaded, requests, reqCursor,
                   prevCursor, lastOutcome, saves>>
    /\ UNCHANGED cursor_count
    /\ called_back' = FALSE
    /\ UNCHANGED max_scrape_time_hours
    /\ elapsed_hours' = 0
    /\ UNCHANGED <<bvars, lvars, avars, pvars>>

\* the process is killed while the harvest is running
Crash ==
    /\ pc \in {"post", "loop", "request"}
    /\ pc' = "idle"
    /\ all_comments' = <<>> /\ end_cursor' = NoCursor /\ has_next' = FALSE
    /\ batch_count' = Unbound /\ last_checkpoint_count' = 0
    /\ consecutive_errors' = 0
    /\ result' = [kind |-> "crashed", comments |-> <<>>, keys |-> <<>>,
                  reason |-> "killed"]
    /\ lastOutcome' = "crash"
    /\ UNCHANGED <<run, resume, max_comments, checkpoint, pipeline, caller,
                   loaded, requests, reqCursor, prevCursor, saves>>
    /\ UNCHANGED cursor_count
    /\ called_back' = FALSE
    /\ UNCHANGED <<max_scrape_time_hours, elapsed_hours>>
    /\ UNCHANGED <<bvars, lvars, avars, pvars>>

HarvestNext ==
    \/ \E r \in BOOLEAN, m \in 0..MaxMaxComments, via \in {"pipeline", "direct"},
          ok \in BOOLEAN : Call(r, m, via, ok, DefaultScrapeTime)
    \/ \E o \in {"exception", "no_media_id", "post_ok"} : FetchPost(o)
    \/ MaxReached
    \/ IssueRequest
    \/ \E kind \in Recoverable : RecoverableFailure(kind)
    \/ AuthRejected
    \/ BadBody
    \/ EmptyPage
    \/ MalformedPage
    \/ \E nodes \in PageChoices, more \in BOOLEAN, c \in 0..MaxPages :
          PageParsed(nodes, more, c)
    \/ \E nodes \in PageChoices, k \in 0..2 : ParseException(nodes, k)
    \/ \E nodes \in PageChoices, more \in BOOLEAN, c \in 0..MaxPages :
          LateException(nodes, more, c)
    \/ Return
    \/ Crash

(***************************************************************************)
(* The backoff controller on its own: _handle_rate_limit and               *)
(* _reset_backoff called in any order on one scraper object.               *)
(***************************************************************************)

BackoffInit ==
    /\ current_backoff = delay_after_rate_limit
    /\ lastWait = 0 /\ prevWait = 0 /\ lastJitter = 0
    /\ lastContinue = TRUE /\ resetSeen = FALSE

\* the draws of random.uniform(0, backoff * 0.2) that the model tries
JitterChoices(backoff) ==
    { (k * ((backoff * 2) \div 10)) \div JitterSteps : k \in 0..JitterSteps }

\* lines 152-175
HandleRateLimit(jitter) ==
    /\ consecutive_errors < MaxFailures
    /\ consecutive_errors' = consecutive_errors + 1
    /\ LET backoff == BackoffFor(current_backoff, consecutive_errors')
       IN  /\ jitter \in JitterChoices(backoff)
           /\ lastWait' = TotalWait(backoff, jitter)
    /\ prevWait' = lastWait
    /\ lastJitter' = jitter
    /\ lastContinue' = ShouldContinue(consecutive_errors')
    /\ UNCHANGED <<current_backoff, resetSeen>>
    /\ UNCHANGED <<hrest, lvars, avars, pvars>>

\* lines 177-180
ResetBackoff ==
    /\ consecutive_errors' = 0
    /\ current_backoff' = delay_after_rate_limit
    /\ lastWait' = 0 /\ prevWait' = 0 /\ lastJitter' = 0
    /\ lastContinue' = TRUE
    /\ resetSeen' = TRUE
    /\ UNCHANGED <<hrest, lvars, avars, pvars>>

BackoffNext ==
    \/ \E j \in JitterRange(max_delay_after_rate_limit) : HandleRateLimit(j)
    \/ ResetBackoff

(***************************************************************************)
(* The rate governor: RateLimiter shared by concurrent callers that run    *)
(* wait_if_needed, the request, then record_request (get_profile).         *)
(***************************************************************************)
Callers == 1..NumCallers
NoTime == -1

\* strftime('%Y%m%d%H') and strftime('%Y%m%d') of the clock
HourOf(t) == (t * SlotSeconds) \div HourSeconds
DayOf(t) == (t * SlotSeconds) \div DaySeconds

Hours == 0..HourOf(MaxTime)
Days == 0..DayOf(MaxTime)

\* the first slot that is not before t + seconds
SlotAfter(t, seconds) == t + ((seconds + SlotSeconds - 1) \div SlotSeconds)

\* next_hour = utcnow().replace(minute=0, second=0) + timedelta(hours=1)
NextHourStart(t) == ((HourOf(t) + 1) * HourSeconds) \div SlotSeconds

LimiterInit ==
    /\ now = StartSlot
    /\ hourCount = [h \in Hours |-> 0]
    /\ dayCount = [d \in Days |-> 0]
    /\ backoff_until = NoTime
    /\ backoff_seconds = InitialBackoffSeconds
    /\ cpc = [c \in Callers |-> "idle"]
    /\ hour_key = [c \in Callers |-> 0]
    /\ day_key = [c \in Callers |-> 0]
    /\ hour_count = [c \in Callers |-> 0]
    /\ day_count = [c \in Callers |-> 0]
    /\ wake = [c \in Callers |-> NoTime]

\* the caller's frame is left: its locals are gone
Leave(c) ==
    /\ cpc' = [cpc EXCEPT ![c] = "idle"]
    /\ hour_key' = [hour_key EXCEPT ![c] = 0]
    /\ day_key' = [day_key EXCEPT ![c] = 0]
    /\ hour_count' = [hour_count EXCEPT ![c] = 0]
    /\ day_count' = [day_count EXCEPT ![c] = 0]
    /\ wake' = [wake EXCEPT ![c] = NoTime]

\* rate_limiter.py lines 50-53: wait_if_needed up to its first await
WaitBegin(c) ==
    /\ cpc[c] = "idle"
    /\ IF backoff_until # NoTime /\ now < backoff_until
       THEN /\ cpc' = [cpc EXCEPT ![c] = "backoff_sleep"]
            /\ wake' = [wake EXCEPT ![c] = backoff_until]
            /\ UNCHANGED <<hour_key, day_key>>
       ELSE /\ cpc' = [cpc EXCEPT ![c] = "get_hour"]
            /\ hour_key' = [hour_key EXCEPT ![c] = HourOf(now)]
            /\ day_key' = [day_key EXCEPT ![c] = DayOf(now)]
            /\ UNCHANGED wake
    /\ UNCHANGED <<now, hourCount, dayCount, backoff_until, backoff_seconds,
                   hour_count, day_count>>
    /\ UNCHANGED <<hvars, bvars, avars, pvars>>

\* lines 53-60: the backoff sleep ends
BackoffWake(c) ==
    /\ cpc[c] = "backoff_sleep"
    /\ now >= wake[c]
    /\ backoff_until' = NoTime
    /\ backoff_seconds' = InitialBackoffSeconds
    /\ cpc' = [cpc EXCEPT ![c] = "get_hour"]
    /\ hour_key' = [hour_key EXCEPT ![c] = HourOf(now)]
    /\ day_key' = [day_key EXCEPT ![c] = DayOf(now)]
    /\ UNCHANGED <<now, hourCount, dayCount, hour_count, day_count, wake>>
    /\ UNCHANGED <<hvars, bvars, avars, pvars>>

\* lines 62, 65: hour_count = await self.redis.get(hour_key)
GetHour(c) ==
    /\ cpc[c] = "get_hour"
    /\ hour_count' = [hour_count EXCEPT ![c] = hourCount[hour_key[c]]]
    /\ cpc' = [cpc EXCEPT ![c] = "get_day"]
    /\ UNCHANGED <<now, hourCount, dayCount, backoff_until, backoff_seconds,
                   hour_key, day_key, day_count, wake>>
    /\ UNCHANGED <<hvars, bvars, avars, pvars>>

\* lines 63-84: day_count = await self.redis.get(day_key), then the checks
GetDay(c) ==
    /\ cpc[c] = "get_day"
    /\ LET read == dayCount[day_key[c]] IN
       IF read >= MaxPerDay
       THEN \* raise RateLimitExceeded
            Leave(c)
       ELSE IF hour_count[c] >= MaxPerHour
       THEN \* await asyncio.sleep(min(wait_seconds, 300))
            /\ cpc' = [cpc EXCEPT ![c] = "hour_sleep"]
            /\ day_count' = [day_count EXCEPT ![c] = read]
            /\ wake' = [wake EXCEPT ![c] =
                           Min(NextHourStart(now), SlotAfter(now, SlotSeconds))]
            /\ UNCHANGED <<hour_key, day_key, hour_count>>
       ELSE /\ cpc' = [cpc EXCEPT ![c] = "request"]
            /\ day_count' = [day_count EXCEPT ![c] = read]
            /\ UNCHANGED <<hour_key, day_key, hour_count, wake>>
    /\ UNCHANGED <<now, hourCount, dayCount, backoff_until, backoff_seconds>>
    /\ UNCHANGED <<hvars, bvars, avars, pvars>>

\* line 84: the hourly sleep ends and wait_if_needed returns
HourWake(c) ==
    /\ cpc[c] = "hour_sleep"
    /\ now >= wake[c]
    /\ cpc' = [cpc EXCEPT ![c] = "request"]
    /\ UNCHANGED <<now, hourCount, dayCount, backoff_until, backoff_seconds,
                   hour_key, day_key, hour_count, day_count, wake>>
    /\ UNCHANGED <<hvars, bvars, avars, pvars>>

\* instagram_scraper.py lines 184-191 and 139-167, rate_limiter.py lines
\* 99-102: the request succeeds, is rate limited (backoff()) or fails
Request(c, outcome) ==
    /\ cpc[c] = "request"
    /\ CASE outcome = "ok" ->
              /\ cpc' = [cpc EXCEPT ![c] = "record"]
              /\ UNCHANGED <<backoff_until, backoff_seconds, hour_key, day_key,
                             hour_count, day_count, wake>>
         [] outcome = "rate_limited" ->
              /\ backoff_until' = SlotAfter(now, backoff_seconds)
              /\ backoff_seconds' = Min(backoff_seconds * 2, MaxBackoffSeconds)
              /\ Leave(c)
         [] outcome = "error" ->
              /\ Leave(c)
              /\ UNCHANGED <<backoff_until, backoff_seconds>>
    /\ UNCHANGED <<now, hourCount, dayCount>>
    /\ UNCHANGED <<hvars, bvars, avars, pvars>>

\* rate_limiter.py lines 86-97: record_request
RecordRequest(c) ==
    /\ cpc[c] = "record"
    /\ hourCount' = [hourCount EXCEPT ![HourOf(now)] = @ + 1]
    /\ dayCount' = [dayCount EXCEPT ![DayOf(now)] = @ + 1]
    /\ Leave(c)
    /\ UNCHANGED <<now, backoff_until, backoff_seconds>>
    /\ UNCHANGED <<hvars, bvars, avars, pvars>>

\* the clock advances by one slot
Tick ==
    /\ now < MaxTime
    /\ now' = now + 1
    /\ UNCHANGED <<hourCount, dayCount, backoff_until, backoff_seconds, cpc,
                   hour_key, day_key, hour_count, day_count, wake>>
    /\ UNCHANGED <<hvars, bvars, avars, pvars>>

LimiterNext ==
    \/ \E c \in Callers : WaitBegin(c)
    \/ \E c \in Callers : BackoffWake(c)
    \/ \E c \in Callers : GetHour(c)
    \/ \E c \in Callers : GetDay(c)
    \/ \E c \in Callers : HourWake(c)
    \/ \E c \in Callers, o \in {"ok", "rate_limited", "error"} : Request(c, o)
    \/ \E c \in Callers : RecordRequest(c)
    \/ Tick

(***************************************************************************)
(* Top-comment selection (comment_selector.py).  A text is a sequence of   *)
(* words separated by single spaces; scores are in hundredths of a point,  *)
(* sentiment_score and toxicity_score in tenths.                           *)
(***************************************************************************)
\* str.lower() on the words of the pool
Lower(w) ==
    CASE w = "I" -> "i"
      [] w = "Love" -> "love"
      [] w = "Beautiful" -> "beautiful"
      [] w = "This" -> "this"
      [] w = "Nice" -> "nice"
      [] OTHER -> w

\* set(text.lower().split())
WordSet(text) == { Lower(text[i]) : i \in 1..Len(text) }

\* len(text): the characters of the words and the spaces between them
RECURSIVE CharCount(_)
CharCount(text) ==
    IF text = <<>> THEN 0
    ELSE Len(Head(text)) + (IF Len(text) > 1 THEN 1 ELSE 0) + CharCount(Tail(text))

\* _text_similarity as the pair <<len(intersection), len(union)>>; the
\* pair <<0, 1>> stands for the 0.0 returned when a word set is empty
TextSimilarity(text1, text2) ==
    LET words1 == WordSet(text1)
        words2 == WordSet(text2)
    IN  IF words1 = {} \/ words2 = {} THEN <<0, 1>>
        ELSE <<Cardinality(words1 \cap words2), Cardinality(words1 \cup words2)>>

\* similarity > 0.6
AboveThreshold(sim) == sim[1] * SimilarityDen > SimilarityNum * sim[2]

Abs(x) == IF x < 0 THEN -x ELSE x

Max(a, b) == IF a > b THEN a ELSE b

\* _calculate_selection_score
SelectionScore(c) ==
    LET length == CharCount(c.text)
    IN  Abs(c.sentiment_score) * 300
        + (IF c.sentiment = "negative" THEN c.toxicity_score * 200 ELSE 0)
        + (IF length >= min_length
           THEN Max(2000 - Abs(length - ideal_length) * 10, 0) ELSE 0)
        + Min(c.like_count * 2, 2000)
        + (IF c.is_notable THEN 1000 ELSE 0)
        + (IF c.emotion_tags # <<>> THEN Min(Len(c.emotion_tags) * 2, 10) * 100 ELSE 0)

\* list.sort(key=selection_score, reverse=True): stable, equal scores keep
\* their input order
RECURSIVE InsertByScore(_, _)
InsertByScore(sorted, c) ==
    IF sorted = <<>> THEN <<c>>
    ELSE IF SelectionScore(Head(sorted)) >= SelectionScore(c)
         THEN <<Head(sorted)>> \o InsertByScore(Tail(sorted), c)
         ELSE <<c>> \o sorted

RECURSIVE SortByScore(_)
SortByScore(comments) ==
    IF comments = <<>> THEN <<>>
    ELSE InsertByScore(SortByScore(SubSeq(comments, 1, Len(comments) - 1)),
                       comments[Len(comments)])

\* the loop of _select_diverse, lines 139-160
RECURSIVE DiverseFrom(_, _, _)
DiverseFrom(comments, top_n, selected) ==
    IF comments = <<>> \/ Len(selected) >= top_n THEN selected
    ELSE LET c == Head(comments)
             is_similar == \E i \in 1..Len(selected) :
                              AboveThreshold(TextSimilarity(c.text, selected[i].text))
         IN  DiverseFrom(Tail(comments), top_n,
                         IF is_similar THEN selected ELSE Append(selected, c))

\* _select_diverse
SelectDiverse(comments, top_n) ==
    IF Len(comments) <= top_n THEN comments
    ELSE DiverseFrom(comments, top_n, <<>>)

\* lines 50-68: the length filter and the two categories
LengthOk(c) ==
    ~(CharCount(c.text) < min_length \/ CharCount(c.text) > max_length)

\* mutant of IsPositive: a toxicity of exactly 0.3 still counts as positive
IsPositiveUpTo(c) == c.sentiment = "positive" /\ c.toxicity_score <= 3

IsPositive(c) == c.sentiment = "positive" /\ c.toxicity_score < 3

IsNegative(c) == ~IsPositive(c) /\ (c.sentiment = "negative" \/ c.toxicity_score > 5)

ScoredPositive(comments) == SelectSeq(comments, LAMBDA c : LengthOk(c) /\ IsPositive(c))

ScoredNegative(comments) == SelectSeq(comments, LAMBDA c : LengthOk(c) /\ IsNegative(c))

\* the comments tried as input
SelP1 == [id |-> "1", text |-> <<"I", "Love", "this", "so", "much", "amazing", "work">>,
          sentiment |-> "positive", sentiment_score |-> 9, toxicity_score |-> 0,
          like_count |-> 50, is_notable |-> FALSE,
          emotion_tags |-> <<"joy", "love">>]
SelP2 == [id |-> "2", text |-> <<"i", "love", "this", "so", "much", "amazing", "job">>,
          sentiment |-> "positive", sentiment_score |-> 9, toxicity_score |-> 0,
          like_count |-> 40, is_notable |-> FALSE,
          emotion_tags |-> <<"joy">>]
SelP3 == [id |-> "3", text |-> <<"Beautiful", "and", "inspiring", "content">>,
          sentiment |-> "positive", sentiment_score |-> 8, toxicity_score |-> 0,
          like_count |-> 30, is_notable |-> TRUE,
          emotion_tags |-> <<>>]
SelN1 == [id |-> "4", text |-> <<"This", "is", "terrible", "and", "fake">>,
          sentiment |-> "negative", sentiment_score |-> -7, toxicity_score |-> 6,
          like_count |-> 20, is_notable |-> FALSE,
          emotion_tags |-> <<"anger">>]
SelN2 == [id |-> "5", text |-> <<"this", "is", "terrible", "and", "so", "fake">>,
          sentiment |-> "neutral", sentiment_score |-> 0, toxicity_score |-> 8,
          like_count |-> 15, is_notable |-> FALSE,
          emotion_tags |-> <<>>]
SelShort == [id |-> "6", text |-> <<"Nice">>,
             sentiment |-> "positive", sentiment_score |-> 5, toxicity_score |-> 0,
             like_count |-> 100, is_notable |-> FALSE,
          emotion_tags |-> <<>>]

\* a word of 100 characters
LongWord ==
    "aaaaaaaaaabbbbbbbbbbccccccccccddddddddddeeeeeeeeeeffffffffffgggggggggghhhhhhhhhhiiiiiiiiiijjjjjjjjjj"
SelLong == [id |-> "7", text |-> <<LongWord, LongWord, LongWord>>,
            sentiment |-> "positive", sentiment_score |-> 9, toxicity_score |-> 0,
            like_count |-> 500, is_notable |-> TRUE,
            emotion_tags |-> <<"joy">>]
SelToxic == [id |-> "8", text |-> <<"love", "you", "but", "they", "are", "idiots">>,
             sentiment |-> "positive", sentiment_score |-> 6, toxicity_score |-> 3,
             like_count |-> 60, is_notable |-> FALSE,
             emotion_tags |-> <<"joy">>]

SelPool == {SelP1, SelP2, SelP3, SelN1, SelN2, SelShort, SelLong, SelToxic}

\* lists of up to MaxSelLen different comments
SelectorInputs ==
    { s \in UNION { [1..k -> SelPool] : k \in 0..MaxSelLen } :
        \A i, j \in 1..Len(s) : i # j => s[i] # s[j] }

SelectorInit ==
    /\ sel_called = FALSE
    /\ sel_comments = <<>> /\ sel_top_n = 0
    /\ top_positive = <<>> /\ top_negative = <<>>

\* select_top_comments(analyzed_comments, top_n)
SelectTopComments(comments, top_n) ==
    /\ ~sel_called /\ sel_called' = TRUE
    /\ sel_comments' = comments /\ sel_top_n' = top_n
    /\ top_positive' = SelectDiverse(SortByScore(ScoredPositive(comments)), top_n)
    /\ top_negative' = SelectDiverse(SortByScore(ScoredNegative(comments)), top_n)
    /\ UNCHANGED <<hvars, bvars, lvars, pvars, vvars, cvars, evars, xvars>>

SelectorNext ==
    \E comments \in SelectorInputs, top_n \in 0..MaxTopN :
        SelectTopComments(comments, top_n)

(***************************************************************************)
(* Viral score (viral_scorer.py).  Scores are kept in tenths of a point    *)
(* (ScoreScale), each quotient rounded down; a post age is in whole hours. *)
(***************************************************************************)
ScoreScale == 10

\* the 20-point cap of a sub-score
SubScoreCap == 20 * ScoreScale

\* posted_at=None
NoPostedAt == -1000

\* likes_score = min((likes / 500_000) * 20, 20)
LikesScore(likes) == Min((likes * 20 * ScoreScale) \div 500000, SubScoreCap)

\* comments_score = min((comments / 50_000) * 20, 20)
CommentsScore(comments) == Min((comments * 20 * ScoreScale) \div 50000, SubScoreCap)

\* mutant of ControversyScore: the bonus is capped at 40 instead of 20
ControversyScoreCap40(likes, comments) ==
    IF likes > 0
    THEN Min((comments * 40 * ScoreScale) \div likes, 2 * SubScoreCap)
    ELSE 0

\* mutant of ControversyScore: the ratio is taken as likes per comment
ControversyScoreInverted(likes, comments) ==
    IF likes > 0 /\ comments > 0
    THEN Min((likes * 40 * ScoreScale) \div comments, SubScoreCap)
    ELSE 0

\* lines 61-64: controversy_score = min((comments / likes) * 40, 20) if likes > 0
ControversyScore(likes, comments) ==
    IF likes > 0
    THEN Min((comments * 40 * ScoreScale) \div likes, SubScoreCap)
    ELSE 0

\* age_hours = max((utcnow - posted_at).total_seconds() / 3600, 1), for a
\* post made hours_ago hours before now (negative: posted_at in the future)
AgeHours(hours_ago) == Max(hours_ago, 1)

\* lines 68-72: velocity_score if posted_at
VelocityScore(likes, comments, posted_at) ==
    IF posted_at # NoPostedAt
    THEN Min(((likes + comments) * 20 * ScoreScale) \div (AgeHours(posted_at) * 10000),
             SubScoreCap)
    ELSE 0

\* mutant of RelativeScore: the min(..., 20) is missing
RelativeScoreUncapped(likes, comments, follower_count) ==
    IF follower_count > 0
    THEN ((likes + comments) * 200 * ScoreScale) \div follower_count
    ELSE 0

\* lines 76-79: relative_score if follower_count and follower_count > 0
RelativeScore(likes, comments, follower_count) ==
    IF follower_count > 0
    THEN Min(((likes + comments) * 200 * ScoreScale) \div follower_count, SubScoreCap)
    ELSE 0

\* calculate_viral_score(likes, comments, posted_at, follower_count)
ViralCall(likes, comments, posted_at, follower_count) ==
    LET ls == LikesScore(likes)
        cs == CommentsScore(comments)
        ks == ControversyScore(likes, comments)
        vs == VelocityScore(likes, comments, posted_at)
        rs == RelativeScore(likes, comments, follower_count)
    IN  [likes |-> likes, comments |-> comments, posted_at |-> posted_at,
         follower_count |-> follower_count,
         likes_score |-> ls, comments_score |-> cs, controversy_score |-> ks,
         velocity_score |-> vs, relative_score |-> rs,
         score |-> Min(ls + cs + ks + vs + rs, 100 * ScoreScale)]

NoViralCall ==
    [likes |-> 0, comments |-> 0, posted_at |-> NoPostedAt, follower_count |-> 0,
     likes_score |-> 0, comments_score |-> 0, controversy_score |-> 0,
     velocity_score |-> 0, relative_score |-> 0, score |-> -1]

\* the arguments tried: follower_count 0 stands for None and for 0, a
\* posted_at of -2 for a time two hours in the future
LikesChoices == {0, 2500, 50000, 100000, 200000, 500000}
CommentsChoices == {0, 20000, 50000, 100000, 250000}
PostedAtChoices == {NoPostedAt, -2, 6, 100}
FollowerChoices == {-1, 0, 100000, 5000000}

ViralInit == viral_cur = NoViralCall /\ viral_prev = NoViralCall

\* one call of calculate_viral_score; two calls are made in a behaviour
CalculateViralScore(likes, comments, posted_at, follower_count) ==
    /\ viral_prev = NoViralCall
    /\ viral_prev' = viral_cur
    /\ viral_cur' = ViralCall(likes, comments, posted_at, follower_count)
    /\ UNCHANGED <<hvars, bvars, lvars, pvars, svars, cvars, evars, xvars>>

ViralNext ==
    \E likes \in LikesChoices, comments \in CommentsChoices,
       posted_at \in PostedAtChoices, follower_count \in FollowerChoices :
        CalculateViralScore(likes, comments, posted_at, follower_count)

(***************************************************************************)
(* Controversy score (analysis_pipeline.py).  Percentages are kept in      *)
(* tenths of a percent, avg_toxicity in thousandths, the score in          *)
(* hundredths of a point.                                                  *)
(***************************************************************************)
\* round(a / b) to the nearest unit
RoundDiv(a, b) == (2 * a + b) \div (2 * b)

\* round((count / total) * 100, 1), in tenths of a percent
Pct(count, total) == RoundDiv(count * 1000, total)

\* _calculate_stats for a list with the given class counts whose mean
\* toxicity_score is avg_toxicity
CalculateStats(positive, negative, neutral, avg_toxicity) ==
    LET total == positive + negative + neutral
    IN  IF total = 0
        THEN [total |-> 0, positive_pct |-> 0, negative_pct |-> 0,
              neutral_pct |-> 0, avg_toxicity |-> 0]
        ELSE [total |-> total, positive_pct |-> Pct(positive, total),
              negative_pct |-> Pct(negative, total),
              neutral_pct |-> Pct(neutral, total),
              avg_toxicity |-> avg_toxicity]

\* mutant of Balance: the abs() is missing
BalanceSigned(positive_pct, negative_pct) == 1000 - (positive_pct - negative_pct)

\* balance = 1 - abs(positive_ratio - negative_ratio), in thousandths
Balance(positive_pct, negative_pct) == 1000 - Abs(positive_pct - negative_pct)

\* mutant of CalculateControversyScore: toxicity enters with the weight 0.3,
\* without the factor 0.5
CalculateControversyScoreFullToxicity(stats) ==
    IF stats.total = 0 THEN 0
    ELSE Min(RoundDiv(Balance(stats.positive_pct, stats.negative_pct) * 7 * 1000
                         + stats.avg_toxicity * 10 * 3 * 100,
                      1000),
             10000)

\* _calculate_controversy_score(stats), in hundredths:
\* round(min((balance * 0.7 + avg_toxicity * 0.5 * 0.3) * 100, 100), 2)
CalculateControversyScore(stats) ==
    IF stats.total = 0 THEN 0
    ELSE Min(RoundDiv(Balance(stats.positive_pct, stats.negative_pct) * 7 * 1000
                         + stats.avg_toxicity * 5 * 3 * 100,
                      1000),
             10000)

NoControversyCall ==
    [counts |-> <<0, 0, 0>>, stats |-> CalculateStats(0, 0, 0, 0), score |-> -1]

\* the comment list of 1,000 comments, 600 positive, 150 negative and 250
\* neutral, with a mean toxicity of 0.1
ExampleCounts == <<600, 150, 250>>
ExampleToxicity == 100

\* mean toxicity values tried, in thousandths
ToxicityChoices == {0, 100, 1000}

ControversyInit == ctr_cur = NoControversyCall /\ ctr_prev = NoControversyCall

\* one call of _calculate_controversy_score on the stats of a comment
\* list; two calls are made in a behaviour
ControversyScoreCall(positive, negative, neutral, avg_toxicity) ==
    /\ ctr_prev = NoControversyCall
    /\ ctr_prev' = ctr_cur
    /\ LET stats == CalculateStats(positive, negative, neutral, avg_toxicity)
       IN  ctr_cur' = [counts |-> <<positive, negative, neutral>>,
                       stats |-> stats,
                       score |-> CalculateControversyScore(stats)]
    /\ UNCHANGED <<hvars, bvars, lvars, pvars, svars, vvars, evars, xvars>>

ControversyNext ==
    \/ \E positive, negative, neutral \in 0..MaxClassCount,
          avg_toxicity \in ToxicityChoices :
           ControversyScoreCall(positive, negative, neutral, avg_toxicity)
    \/ ControversyScoreCall(ExampleCounts[1], ExampleCounts[2],
                            ExampleCounts[3], ExampleToxicity)

(***************************************************************************)
(* Cost-effective analysis (cost_effective_analyzer.py) as run by          *)
(* run_full_analysis.  A comment is given by the positive and negative     *)
(* signals _local_sentiment counts in its text.                            *)
(***************************************************************************)
\* lines 100-108 of _local_sentiment
\* mutant of LocalSentiment: a lead of one signal already decides
LocalSentimentLeadOfOne(positive_signals, negative_signals) ==
    IF positive_signals >= negative_signals + 1 THEN "positive"
    ELSE IF negative_signals >= positive_signals + 1 THEN "negative"
    ELSE "neutral"

LocalSentiment(positive_signals, negative_signals) ==
    IF positive_signals > negative_signals + 1 THEN "positive"
    ELSE IF negative_signals > positive_signals + 1 THEN "negative"
    ELSE "neutral"

\* analyze_bulk_free: every comment gets its local sentiment
AnalyzeBulkFree(comments) ==
    [i \in 1..Len(comments) |->
        [positive_signals |-> comments[i].positive_signals,
         negative_signals |-> comments[i].negative_signals,
         sentiment |-> LocalSentiment(comments[i].positive_signals,
                                      comments[i].negative_signals)]]

\* [c for c in comments if c.get('sentiment') == cls], as indices
OfClass(comments, cls) == { i \in 1..Len(comments) : comments[i].sentiment = cls }

\* lines 277-285 of full_analysis
\* mutant of LocalStats: neutral counts every comment that is not positive
LocalStatsNeutralIsRest(comments) ==
    [total |-> Len(comments),
     positive |-> Cardinality(OfClass(comments, "positive")),
     negative |-> Cardinality(OfClass(comments, "negative")),
     neutral |-> Len(comments) - Cardinality(OfClass(comments, "positive"))]

LocalStats(comments) ==
    [total |-> Len(comments),
     positive |-> Cardinality(OfClass(comments, "positive")),
     negative |-> Cardinality(OfClass(comments, "negative")),
     neutral |-> Cardinality(OfClass(comments, "neutral"))]

\* int(sample_size * 0.6) and int(sample_size * 0.2)
PositiveQuota == (sample_size * 6) \div 10
NegativeQuota == (sample_size * 2) \div 10
NeutralQuota == (sample_size * 2) \div 10

\* random.sample(population, min(len(population), quota)), as a set
Draws(population, quota) ==
    { T \in SUBSET population : Cardinality(T) = Min(Cardinality(population), quota) }

\* random.shuffle: every order of the drawn comments
Orders(T) ==
    { f \in [1..Cardinality(T) -> T] : \A i, j \in 1..Cardinality(T) : i # j => f[i] # f[j] }

\* lines 162-172: the samples enhance_with_claude can end up with
Samples(comments) ==
    UNION { { Take(f, sample_size) : f \in Orders(P \cup N \cup U) } :
              P \in Draws(OfClass(comments, "positive"), PositiveQuota),
              N \in Draws(OfClass(comments, "negative"), NegativeQuota),
              U \in Draws(OfClass(comments, "neutral"), NeutralQuota) }

\* line 177: sample[:100], the comments written into the prompt
PromptComments(sample) == Take(sample, PromptLimit)

\* mutant of FallbackHeadline: the headline is the bare celebrity name
FallbackHeadlineNameOnly(celebrity_name) == celebrity_name

\* line 250: f"{celebrity_name} Post Enter Streets!"
FallbackHeadline(celebrity_name) == celebrity_name \o " Post Enter Streets!"

\* the hosted-model call: it raises, or returns text without braces, or
\* text whose braces do not hold JSON, or a JSON object
ReplyKinds == {"raises", "no_json", "bad_json", "json"}

\* the notable_indices entry tried in a JSON reply: none (0), the first
\* comment, the first one past the prompt, one past the sample
NotableChoices == {0, 1, PromptLimit + 1, sample_size + 1}

NoReply == [kind |-> "none", headline |-> "", notable_index |-> 0]

\* lines 213-255: the summary enhance_with_claude returns
Enhancement(reply, celebrity_name) ==
    IF reply.kind = "json"
    THEN [source |-> "model", headline |-> reply.headline]
    ELSE [source |-> "fallback", headline |-> FallbackHeadline(celebrity_name)]

\* lines 234-239: the comments marked is_notable
Notable(reply, sample) ==
    IF reply.kind = "json" /\ 0 < reply.notable_index
          /\ reply.notable_index <= Len(sample)
    THEN {sample[reply.notable_index]}
    ELSE {}

NoAnalysis ==
    [kind |-> "none", stats |-> LocalStats(<<>>),
     summary |-> [source |-> "none", headline |-> ""], notable |-> {}]

\* the signal counts tried for one comment
SignalChoices ==
    { [positive_signals |-> 2, negative_signals |-> 0],
      [positive_signals |-> 0, negative_signals |-> 2],
      [positive_signals |-> 1, negative_signals |-> 0] }

AnalyzerInputs == UNION { [1..k -> SignalChoices] : k \in 0..MaxAnalyzed }

AnalyzerInit ==
    /\ an_pc = "idle" /\ an_name = "" /\ an_comments = <<>>
    /\ an_sample = <<>> /\ an_reply = NoReply
    /\ an_result = NoAnalysis /\ an_status = "none"

\* vibe_check_pipeline.py lines 113-131 and cost_effective_analyzer.py lines
\* 268-274: the scrape handed over its comments; without comments and with
\* a scrape error the run ends as 'failed', else the local pass runs
RunFullAnalysis(comments, celebrity_name, scrape_error) ==
    /\ an_pc = "idle"
    /\ comments \in AnalyzerInputs
    /\ an_name' = celebrity_name
    /\ IF scrape_error /\ comments = <<>>
       THEN /\ an_status' = "failed" /\ an_pc' = "returned"
            /\ UNCHANGED an_comments
       ELSE /\ an_comments' = AnalyzeBulkFree(comments)
            /\ an_pc' = "sample"
            /\ UNCHANGED an_status
    /\ UNCHANGED <<an_sample, an_reply, an_result>>
    /\ UNCHANGED <<hvars, bvars, lvars, pvars, svars, vvars, cvars, xvars>>

\* lines 160-211 of enhance_with_claude: sample, shuffle, build the prompt;
\* the prompt divides by len(comments)
DrawSample ==
    /\ an_pc = "sample"
    /\ an_sample' \in Samples(an_comments)
    /\ IF an_comments = <<>>
       THEN /\ an_result' = [NoAnalysis EXCEPT !.kind = "raised"]
            /\ an_pc' = "done"
       ELSE /\ an_pc' = "call"
            /\ UNCHANGED an_result
    /\ UNCHANGED <<an_name, an_comments, an_reply, an_status>>
    /\ UNCHANGED <<hvars, bvars, lvars, pvars, svars, vvars, cvars, xvars>>

\* lines 213-255 and 287-308: the hosted-model call and the rest of
\* full_analysis
ModelReply(kind, headline, notable_index) ==
    /\ an_pc = "call"
    /\ kind \in ReplyKinds
    /\ kind # "json" => (headline = "" /\ notable_index = 0)
    /\ headline = "" => notable_index = 0
    /\ an_reply' = [kind |-> kind, headline |-> headline,
                    notable_index |-> notable_index]
    /\ an_result' = [kind |-> "ok", stats |-> LocalStats(an_comments),
                     summary |-> Enhancement(an_reply', an_name),
                     notable |-> Notable(an_reply', an_sample)]
    /\ an_pc' = "done"
    /\ UNCHANGED <<an_name, an_comments, an_sample, an_status>>
    /\ UNCHANGED <<hvars, bvars, lvars, pvars, svars, vvars, cvars, xvars>>

\* vibe_check_pipeline.py lines 170-187 and 251-252: the result is read
\* with .get and the status is 'complete'; an exception of full_analysis
\* leaves run_full_analysis as it is
PipelineReturn ==
    /\ an_pc = "done"
    /\ an_status' = IF an_result.kind = "raised" THEN "raised" ELSE "complete"
    /\ an_pc' = "returned"
    /\ UNCHANGED <<an_name, an_comments, an_sample, an_reply, an_result>>
    /\ UNCHANGED <<hvars, bvars, lvars, pvars, svars, vvars, cvars, xvars>>

AnalyzerNext ==
    \/ \E comments \in AnalyzerInputs, name \in {"", "Davido"},
          scrape_error \in BOOLEAN : RunFullAnalysis(comments, name, scrape_error)
    \/ DrawSample
    \/ \E kind \in ReplyKinds, headline \in {"", "Wahala!"},
          idx \in NotableChoices : ModelReply(kind, headline, idx)
    \/ PipelineReturn

(***************************************************************************)
(* The checkpoint file (robust_scraper.py, _save_checkpoint and            *)
(* _load_checkpoint).  _save_checkpoint opens the file of the shortcode    *)
(* with mode 'w', which empties it, and json.dump then writes the document *)
(* into it piece by piece; nothing is written to a temporary file and      *)
(* renamed.  _load_checkpoint may run in another process at any moment,    *)
(* and the saving process may die between two writes.                      *)
(***************************************************************************)
NoDoc == [end_cursor |-> NoCursor, comments |-> <<0>>]

\* the documents saved: a cursor and a list of comment numbers
DocComments == UNION {[1..n -> 1..2] : n \in 0..MaxDocComments}
Docs == [end_cursor : 0..1, comments : DocComments]

\* json.dump: the document as the tokens written, in order
RECURSIVE CommentTokens(_)
CommentTokens(comments) ==
    IF comments = <<>> THEN <<>>
    ELSE <<<<"comment", Head(comments)>>>> \o CommentTokens(Tail(comments))

Serialize(doc) ==
    <<<<"open", 0>>, <<"end_cursor", doc.end_cursor>>>>
        \o CommentTokens(doc.comments) \o <<<<"close", 0>>>>

\* json.load: the document of a complete text; an empty or cut text raises
WellFormed(tokens) ==
    /\ Len(tokens) >= 3
    /\ tokens[1][1] = "open"
    /\ tokens[2][1] = "end_cursor"
    /\ tokens[Len(tokens)][1] = "close"
    /\ \A i \in 3..(Len(tokens) - 1) : tokens[i][1] = "comment"

Parse(tokens) ==
    [end_cursor |-> tokens[2][2],
     comments |-> [i \in 1..(Len(tokens) - 3) |-> tokens[i + 2][2]]]

NoLoad == [kind |-> "none", read |-> <<>>, returned |-> NoDoc]

CheckpointInit ==
    /\ ck_pc = "idle"
    /\ ck_exists = FALSE
    /\ ck_file = <<>>
    /\ ck_old = NoDoc
    /\ ck_new = NoDoc
    /\ ck_load = NoLoad

\* _save_checkpoint, line 204: open(checkpoint_path, 'w') creates or empties
\* the file
SaveOpen(doc) ==
    /\ ck_pc = "idle"
    /\ ck_pc' = "writing"
    /\ ck_exists' = TRUE
    /\ ck_file' = <<>>
    /\ ck_old' = IF ck_exists /\ WellFormed(ck_file) THEN Parse(ck_file) ELSE NoDoc
    /\ ck_new' = doc
    /\ UNCHANGED ck_load
    /\ UNCHANGED <<hvars, bvars, lvars, pvars, svars, vvars, cvars, evars, nvars, rvars>>

\* _save_checkpoint, line 205: json.dump writes the next piece of the document
SaveWrite ==
    /\ ck_pc = "writing"
    /\ Len(ck_file) < Len(Serialize(ck_new))
    /\ ck_file' = Take(Serialize(ck_new), Len(ck_file) + 1)
    /\ UNCHANGED <<ck_pc, ck_exists, ck_old, ck_new, ck_load>>
    /\ UNCHANGED <<hvars, bvars, lvars, pvars, svars, vvars, cvars, evars, nvars, rvars>>

\* _save_checkpoint, end of the with block: the file is closed
SaveClose ==
    /\ ck_pc = "writing"
    /\ ck_file = Serialize(ck_new)
    /\ ck_pc' = "idle"
    /\ UNCHANGED <<ck_exists, ck_file, ck_old, ck_new, ck_load>>
    /\ UNCHANGED <<hvars, bvars, lvars, pvars, svars, vvars, cvars, evars, nvars, rvars>>

\* the saving process dies inside _save_checkpoint; the file stays as it is
SaveCrash ==
    /\ ck_pc = "writing"
    /\ ck_pc' = "idle"
    /\ UNCHANGED <<ck_exists, ck_file, ck_old, ck_new, ck_load>>
    /\ UNCHANGED <<hvars, bvars, lvars, pvars, svars, vvars, cvars, evars, nvars, rvars>>

\* _load_checkpoint: a missing file gives None; json.load of an empty or cut
\* text raises, the exception is logged and None is returned
LoadCheckpoint ==
    /\ ck_load' =
        IF ~ck_exists THEN [kind |-> "missing", read |-> <<>>, returned |-> NoDoc]
        ELSE IF WellFormed(ck_file)
             THEN [kind |-> "document", read |-> ck_file,
                   returned |-> Parse(ck_file)]
             ELSE [kind |-> "unreadable", read |-> ck_file, returned |-> NoDoc]
    /\ UNCHANGED <<ck_pc, ck_exists, ck_file, ck_old, ck_new>>
    /\ UNCHANGED <<hvars, bvars, lvars, pvars, svars, vvars, cvars, evars, nvars, rvars>>

CheckpointNext ==
    \/ \E doc \in Docs : SaveOpen(doc)
    \/ SaveWrite
    \/ SaveClose
    \/ SaveCrash
    \/ LoadCheckpoint

(***************************************************************************)
(* The local classifier (cost_effective_analyzer.py, _local_sentiment).    *)
(* The text is given by what the function counts in it: the indicator      *)
(* words of the two lists, the emojis of the two classes and the TextBlob  *)
(* polarity, in tenths.  Scores are in hundredths.                         *)
(***************************************************************************)
BlobThreshold == 2     \* blob_score > 0.2, blob_score < -0.2

\* line 96: naija_positive_count + positive_emojis + (1 if blob_score > 0.2)
PositiveSignals(naija_positive_count, positive_emojis, blob_score) ==
    naija_positive_count + positive_emojis
        + (IF blob_score > BlobThreshold THEN 1 ELSE 0)

\* line 97: naija_negative_count + negative_emojis + (1 if blob_score < -0.2)
NegativeSignals(naija_negative_count, negative_emojis, blob_score) ==
    naija_negative_count + negative_emojis
        + (IF blob_score < -BlobThreshold THEN 1 ELSE 0)

\* lines 100-108: the score that goes with the sentiment
LocalScore(positive_signals, negative_signals, blob_score) ==
    LET sentiment == LocalSentiment(positive_signals, negative_signals)
    IN  IF sentiment = "positive" THEN Min(50 + positive_signals * 10, 100)
        ELSE IF sentiment = "negative"
             THEN Max(-50 - negative_signals * 10, -100)
        ELSE blob_score * 5

\* line 111: toxicity = min(negative_signals * 0.2, 1.0)
LocalToxicity(negative_signals) == Min(negative_signals * 20, 100)

NoSentimentCall ==
    [naija_positive_count |-> -1, naija_negative_count |-> -1,
     positive_emojis |-> 0, negative_emojis |-> 0, blob_score |-> 0,
     positive_signals |-> 0, negative_signals |-> 0,
     sentiment |-> "none", sentiment_score |-> 0, toxicity_score |-> 0]

\* polarities tried, in tenths: at, just beyond and far beyond the thresholds
BlobChoices == {-10, -3, -2, 0, 2, 3, 10}

SentimentInit == ls_cur = NoSentimentCall

\* _local_sentiment(text)
LocalSentimentCall(naija_positive_count, naija_negative_count, positive_emojis, negative_emojis, blob_score) ==
    /\ ls_cur = NoSentimentCall
    /\ LET positive_signals ==
               PositiveSignals(naija_positive_count, positive_emojis, blob_score)
           negative_signals ==
               NegativeSignals(naija_negative_count, negative_emojis, blob_score)
       IN  ls_cur' =
             [naija_positive_count |-> naija_positive_count,
              naija_negative_count |-> naija_negative_count,
              positive_emojis |-> positive_emojis,
              negative_emojis |-> negative_emojis,
              blob_score |-> blob_score,
              positive_signals |-> positive_signals,
              negative_signals |-> negative_signals,
              sentiment |-> LocalSentiment(positive_signals, negative_signals),
              sentiment_score |->
                  LocalScore(positive_signals, negative_signals, blob_score),
              toxicity_score |-> LocalToxicity(negative_signals)]
    /\ UNCHANGED <<hvars, bvars, lvars, pvars, svars, vvars, cvars, evars, kvars, rvars>>

SentimentNext ==
    \E naija_positive_count, naija_negative_count \in 0..MaxIndicatorWords,
       positive_emojis, negative_emojis \in 0..MaxEmojis,
       blob_score \in BlobChoices :
        LocalSentimentCall(naija_positive_count, naija_negative_count,
                           positive_emojis, negative_emojis, blob_score)

(***************************************************************************)
(* The batch analysis (robust_analyzer.py, analyze_all_comments and        *)
(* _analyze_batch).  A call starts on a list of ra_total comments without  *)
(* a checkpoint for its analysis_id.  A reply of the hosted model is one   *)
(* of: a JSON array of results, each with an index; text without a JSON    *)
(* array; an array that does not parse; a rate-limit or API error; any     *)
(* other exception.  An index of a result is any comment index or one      *)
(* past the last, which also stands for a result without an index.         *)
(***************************************************************************)
\* the indices a result can carry for a list of total comments
ResultIndices(total) == 0..total

\* the sentiments a result array gives its comments; "unknown" is the
\* default of result.get('sentiment', 'unknown')
ResultSentiments == {"positive", "unknown"}

\* elements of a sequence
Elems(seq) == { seq[i] : i \in 1..Len(seq) }

\* pending_indices after pending_indices.remove(idx) for every idx of gone
Without(seq, gone) == SelectSeq(seq, LAMBDA idx : idx \notin gone)

\* lines 347-360: the results whose index is in the batch are applied
Applied(results, batch) == results \cap Elems(batch)

\* lines 362-367: an empty result list settles the whole batch as failed
Failed(results, batch, pending) ==
    IF results = {} THEN Elems(batch) \cap Elems(pending) ELSE {}

NoAnalysisCheckpoint == [exists |-> FALSE, pending |-> <<>>, completed |-> FALSE]

RobustInit ==
    /\ ra_pc = "idle" /\ ra_total = 0 /\ ra_time_limited = FALSE
    /\ pending_indices = <<>> /\ ra_sentiment = <<>>
    /\ batch_indices = <<>> /\ ra_batch_count = 0
    /\ retry_count = 0 /\ ra_calls = 0 /\ ra_errors = 0
    /\ ra_last_checkpoint_count = 0 /\ ra_saved = NoAnalysisCheckpoint
    /\ ra_removed = -1

\* lines 304-326: analyze_all_comments(comments, ...) up to the loop
AnalyzeAllComments(total, time_limited) ==
    /\ ra_pc = "idle"
    /\ ra_total' = total /\ ra_time_limited' = time_limited
    /\ pending_indices' = [i \in 1..total |-> i - 1]
    /\ ra_sentiment' = [i \in 1..total |-> ""]
    /\ ra_last_checkpoint_count' = 0 /\ ra_batch_count' = 0
    /\ ra_pc' = "loop"
    /\ UNCHANGED <<batch_indices, retry_count, ra_calls, ra_errors, ra_saved,
                   ra_removed>>
    /\ UNCHANGED <<hvars, bvars, lvars, pvars, svars, vvars, cvars, evars, kvars, nvars>>

\* lines 395-436: the final checkpoint, the statistics and the return
FinishAnalysis ==
    /\ ra_saved' = [exists |-> TRUE, pending |-> pending_indices,
                    completed |-> pending_indices = <<>>]
    /\ ra_pc' = "done"

\* line 328: the while condition is false
AllSettled ==
    /\ ra_pc = "loop" /\ pending_indices = <<>>
    /\ FinishAnalysis
    /\ UNCHANGED <<ra_total, ra_time_limited, pending_indices, ra_sentiment,
                   batch_indices, ra_batch_count, retry_count, ra_calls,
                   ra_errors, ra_last_checkpoint_count, ra_removed>>
    /\ UNCHANGED <<hvars, bvars, lvars, pvars, svars, vvars, cvars, evars, kvars, nvars>>

\* lines 329-334: the time limit, when one is configured, has passed
TimeLimitReached ==
    /\ ra_pc = "loop" /\ pending_indices # <<>> /\ ra_time_limited
    /\ FinishAnalysis
    /\ UNCHANGED <<ra_total, ra_time_limited, pending_indices, ra_sentiment,
                   batch_indices, ra_batch_count, retry_count, ra_calls,
                   ra_errors, ra_last_checkpoint_count, ra_removed>>
    /\ UNCHANGED <<hvars, bvars, lvars, pvars, svars, vvars, cvars, evars, kvars, nvars>>

\* lines 336-345: the next batch is cut and _analyze_batch is entered
TakeBatch ==
    /\ ra_pc = "loop" /\ pending_indices # <<>>
    /\ batch_indices' = Take(pending_indices, batch_size)
    /\ ra_batch_count' = Min(ra_batch_count + 1, MaxBatchCount)
    /\ retry_count' = 0 /\ ra_calls' = 0
    /\ ra_pc' = "call"
    /\ UNCHANGED <<ra_total, ra_time_limited, pending_indices, ra_sentiment,
                   ra_errors, ra_last_checkpoint_count, ra_saved, ra_removed>>
    /\ UNCHANGED <<hvars, bvars, lvars, pvars, svars, vvars, cvars, evars, kvars, nvars>>

\* _handle_rate_limit: the error is counted; False once max_retries is reached
ShouldContinueAnalysis(errors) == ~(errors >= analyzer_max_retries)

RetryAllowedInclusive(count) == count <= max_batch_retries

\* lines 244, 253, 262, 271: the test every retry of a batch has to pass
RetryAllowed(count) == count < max_batch_retries

\* _analyze_batch calls itself again: after text without an array or an
\* array that does not parse while retry_count < max_batch_retries, after
\* a rate-limit or API error while _handle_rate_limit allows it as well
BatchRetry(kind) ==
    /\ ra_pc = "call"
    /\ kind \in {"no_array", "bad_json", "rate_limit", "api_error"}
    /\ RetryAllowed(retry_count)
    /\ kind \in {"rate_limit", "api_error"} => ShouldContinueAnalysis(ra_errors + 1)
    /\ ra_errors' = IF kind \in {"rate_limit", "api_error"}
                    THEN ra_errors + 1 ELSE ra_errors
    /\ retry_count' = retry_count + 1
    /\ ra_calls' = ra_calls + 1
    /\ UNCHANGED <<ra_pc, ra_total, ra_time_limited, pending_indices,
                   ra_sentiment, batch_indices, ra_batch_count,
                   ra_last_checkpoint_count, ra_saved, ra_removed>>
    /\ UNCHANGED <<hvars, bvars, lvars, pvars, svars, vvars, cvars, evars, kvars, nvars>>

\* lines 347-393: _analyze_batch has returned results, which are applied;
\* the checkpoint is saved when checkpoint_interval more comments are settled
ApplyResults(results, sentiment) ==
    LET applied == Applied(results, batch_indices)
        failed == Failed(results, batch_indices, pending_indices)
        left == Without(pending_indices, applied \cup failed)
        analyzed_count == ra_total - Len(left)
        due == analyzed_count - ra_last_checkpoint_count
                   >= analysis_checkpoint_interval
    IN  /\ ra_sentiment' =
              [i \in 1..ra_total |->
                  IF (i - 1) \in applied THEN sentiment
                  ELSE IF (i - 1) \in failed THEN "analysis_failed"
                  ELSE ra_sentiment[i]]
        /\ pending_indices' = left
        /\ ra_removed' = Len(pending_indices) - Len(left)
        /\ ra_saved' = IF due THEN [exists |-> TRUE, pending |-> left,
                                    completed |-> FALSE]
                       ELSE ra_saved
        /\ ra_last_checkpoint_count' =
              IF due THEN analyzed_count ELSE ra_last_checkpoint_count
        /\ ra_pc' = "loop"

\* _analyze_batch returns the parsed array (lines 236-241) and the loop
\* body runs to its end
BatchResults(results, sentiment) ==
    /\ ra_pc = "call"
    /\ results \subseteq ResultIndices(ra_total)
    /\ sentiment \in ResultSentiments
    /\ ra_errors' = 0
    /\ ra_calls' = ra_calls + 1
    /\ ApplyResults(results, sentiment)
    /\ UNCHANGED <<ra_total, ra_time_limited, batch_indices, ra_batch_count,
                   retry_count>>
    /\ UNCHANGED <<hvars, bvars, lvars, pvars, svars, vvars, cvars, evars, kvars, nvars>>

\* _analyze_batch gives up and returns [] (lines 249, 258, 266, 275, 279)
\* and the loop body runs to its end
BatchGivesUp(kind) ==
    /\ ra_pc = "call"
    /\ kind \in {"no_array", "bad_json", "rate_limit", "api_error", "other"}
    /\ kind \in {"no_array", "bad_json"} => ~RetryAllowed(retry_count)
    /\ kind \in {"rate_limit", "api_error"} =>
          ~(ShouldContinueAnalysis(ra_errors + 1) /\ RetryAllowed(retry_count))
    /\ ra_errors' = IF kind \in {"rate_limit", "api_error"}
                    THEN ra_errors + 1 ELSE ra_errors
    /\ ra_calls' = ra_calls + 1
    /\ ApplyResults({}, "unknown")
    /\ UNCHANGED <<ra_total, ra_time_limited, batch_indices, ra_batch_count,
                   retry_count>>
    /\ UNCHANGED <<hvars, bvars, lvars, pvars, svars, vvars, cvars, evars, kvars, nvars>>

RobustNext ==
    \/ \E total \in 0..MaxRobustTotal, time_limited \in BOOLEAN :
          AnalyzeAllComments(total, time_limited)
    \/ AllSettled
    \/ TimeLimitReached
    \/ TakeBatch
    \/ \E kind \in {"no_array", "bad_json", "rate_limit", "api_error"} :
          BatchRetry(kind)
    \/ \E results \in SUBSET ResultIndices(MaxRobustTotal),
          sentiment \in ResultSentiments :
          BatchResults(results, sentiment)
    \/ \E kind \in {"no_array", "bad_json", "rate_limit", "api_error", "other"} :
          BatchGivesUp(kind)

(***************************************************************************)
(* RobustInstagramScraper._smart_delay: the pacing of the requests.        *)
(* Every call of _smart_delay belongs to one request of the object.        *)
(***************************************************************************)
\* the scraper objects of the two harvests
Scrapers == {"first", "second"}

PacingInit ==
    /\ wall = 0
    /\ sd_pc = [i \in Scrapers |-> "idle"]
    /\ request_count = [i \in Scrapers |-> 0]
    /\ hour_request_count = [i \in Scrapers |-> 0]
    /\ hour_start = [i \in Scrapers |-> 0]
    /\ cap_wake = [i \in Scrapers |-> 0]
    /\ since_pause = [i \in Scrapers |-> 0]
    /\ seen = [i \in Scrapers |-> 0]

PacingRest == <<hvars, bvars, lvars, svars, vvars, cvars, evars, xvars>>

LongPauseDueLate(count) ==
    count > 0 /\ count % (requests_before_long_pause + 1) = 0

\* line 132: the test for the cooldown pause
LongPauseDue(count) == count > 0 /\ count % requests_before_long_pause = 0

\* lines 129-134: _smart_delay draws its base delay and starts the cooldown
\* pause when it is due
SmartDelayBegins(i) ==
    /\ sd_pc[i] = "idle"
    /\ request_count[i] < MaxRequestCount
    /\ sd_pc' = [sd_pc EXCEPT ![i] = IF LongPauseDue(request_count[i])
                                     THEN "long_pause" ELSE "hour_check"]
    /\ UNCHANGED <<wall, request_count, hour_request_count, hour_start,
                   cap_wake, since_pause, seen>>
    /\ UNCHANGED PacingRest

\* line 134: the sleep of long_pause_duration is over
LongPauseEnds(i) ==
    /\ sd_pc[i] = "long_pause"
    /\ sd_pc' = [sd_pc EXCEPT ![i] = "hour_check"]
    /\ since_pause' = [since_pause EXCEPT ![i] = 0]
    /\ UNCHANGED <<wall, request_count, hour_request_count, hour_start,
                   cap_wake, seen>>
    /\ UNCHANGED PacingRest

\* lines 137-143: the hour window is renewed when it is over; when it is
\* not and the object's hourly count has reached the cap, the object goes
\* to sleep until some time after the end of the window
HourCheck(i) ==
    /\ sd_pc[i] = "hour_check"
    /\ LET elapsed_hour == wall - hour_start[i]
       IN  IF elapsed_hour >= HourTicks
           THEN /\ hour_request_count' = [hour_request_count EXCEPT ![i] = 0]
                /\ hour_start' = [hour_start EXCEPT ![i] = wall]
                /\ seen' = [seen EXCEPT ![i] = 0]
                /\ sd_pc' = [sd_pc EXCEPT ![i] = "base_delay"]
                /\ UNCHANGED cap_wake
           ELSE IF hour_request_count[i] >= max_requests_per_hour
           THEN /\ cap_wake' = [cap_wake EXCEPT ![i] = hour_start[i] + HourTicks]
                /\ sd_pc' = [sd_pc EXCEPT ![i] = "cap_wait"]
                /\ UNCHANGED <<hour_request_count, hour_start, seen>>
           ELSE /\ sd_pc' = [sd_pc EXCEPT ![i] = "base_delay"]
                /\ UNCHANGED <<hour_request_count, hour_start, cap_wake, seen>>
    /\ UNCHANGED <<wall, request_count, since_pause>>
    /\ UNCHANGED PacingRest

\* lines 144-146: the sleep on the hourly cap is over (it ends a minute or
\* two after the window, that is within the tick in which the window ends
\* or later), the window is renewed
CapWaitEnds(i) ==
    /\ sd_pc[i] = "cap_wait"
    /\ wall >= cap_wake[i]
    /\ hour_request_count' = [hour_request_count EXCEPT ![i] = 0]
    /\ hour_start' = [hour_start EXCEPT ![i] = wall]
    /\ seen' = [seen EXCEPT ![i] = 0]
    /\ sd_pc' = [sd_pc EXCEPT ![i] = "base_delay"]
    /\ UNCHANGED <<wall, request_count, cap_wake, since_pause>>
    /\ UNCHANGED PacingRest

\* lines 148-150: the base delay is over, both counters are raised,
\* _smart_delay returns and the request of the object is on its way
SmartDelayEnds(i) ==
    /\ sd_pc[i] = "base_delay"
    /\ request_count' = [request_count EXCEPT ![i] = @ + 1]
    /\ hour_request_count' = [hour_request_count EXCEPT ![i] = @ + 1]
    /\ since_pause' = [since_pause EXCEPT ![i] = @ + 1]
    /\ seen' = [j \in Scrapers |->
                  IF wall - hour_start[j] < HourTicks THEN seen[j] + 1
                  ELSE seen[j]]
    /\ sd_pc' = [sd_pc EXCEPT ![i] = "idle"]
    /\ UNCHANGED <<wall, hour_start, cap_wake>>
    /\ UNCHANGED PacingRest

\* time.time() moves on
WallTick ==
    /\ wall < MaxWall
    /\ wall' = wall + 1
    /\ UNCHANGED <<sd_pc, request_count, hour_request_count, hour_start,
                   cap_wake, since_pause, seen>>
    /\ UNCHANGED PacingRest

PacingNext ==
    \/ \E i \in Scrapers : SmartDelayBegins(i)
    \/ \E i \in Scrapers : LongPauseEnds(i)
    \/ \E i \in Scrapers : HourCheck(i)
    \/ \E i \in Scrapers : CapWaitEnds(i)
    \/ \E i \in Scrapers : SmartDelayEnds(i)
    \/ WallTick

(***************************************************************************)
(* Specifications.                                                         *)
(***************************************************************************)
vars == <<hvars, bvars, lvars, avars, pvars>>

Init == HarvestInit /\ BackoffInit /\ LimiterInit /\ SelectorInit /\ ViralInit
        /\ ControversyInit /\ AnalyzerInit /\ CheckpointInit
        /\ SentimentInit /\ RobustInit /\ PacingInit

\* the harvest of a caller that has configured an hour budget, followed
\* from its call to its return
BudgetedCall(r, m, via, initOk, budget) ==
    /\ run = "none"
    /\ Call(r, m, via, initOk, budget)

TimeLimitNext ==
    \/ \E r \in BOOLEAN, m \in 0..MaxMaxComments, via \in {"pipeline", "direct"},
          ok \in BOOLEAN, budget \in ScrapeTimeChoices :
          BudgetedCall(r, m, via, ok, budget)
    \/ \E o \in {"exception", "no_media_id", "post_ok"} : FetchPost(o)
    \/ MaxReached
    \/ TimeLimitStop
    \/ HourPasses
    \/ IssueRequest
    \/ \E kind \in Recoverable : RecoverableFailure(kind)
    \/ AuthRejected
    \/ BadBody
    \/ EmptyPage
    \/ MalformedPage
    \/ \E nodes \in PageChoices, more \in BOOLEAN, c \in 0..MaxPages :
          PageParsed(nodes, more, c)
    \/ \E nodes \in PageChoices, k \in 0..2 : ParseException(nodes, k)
    \/ \E nodes \in PageChoices, more \in BOOLEAN, c \in 0..MaxPages :
          LateException(nodes, more, c)
    \/ Return
    \/ Crash

Next == HarvestNext

Spec == Init /\ [][Next]_vars

SpecTimeLimit == Init /\ [][TimeLimitNext]_vars

SpecPacing == Init /\ [][PacingNext]_vars

SpecBackoff == Init /\ [][BackoffNext]_vars

SpecLimiter == Init /\ [][LimiterNext]_vars

SpecSelector == Init /\ [][SelectorNext]_vars

SpecViral == Init /\ [][ViralNext]_vars

SpecControversy == Init /\ [][ControversyNext]_vars

SpecAnalyzer == Init /\ [][AnalyzerNext]_vars

SpecCheckpoint == Init /\ [][CheckpointNext]_vars

SpecSentiment == Init /\ [][SentimentNext]_vars

\* every step of the batch analysis that can be taken is taken in the end, and
\* a configured time limit does pass
SpecRobust ==
    Init /\ [][RobustNext]_vars /\ WF_vars(RobustNext)
         /\ SF_vars(TimeLimitReached)

(***************************************************************************)
(* Properties of the harvest.                                              *)
(***************************************************************************)
BetweenPages == pc \in {"loop", "request"}

C2_ResumeSupersetNoDuplicates ==
    (pc = "done" /\ resume /\ loaded.exists /\ ~loaded.completed
        /\ result.kind \in {"ok", "error"} /\ result.reason # "init") =>
        /\ \A i \in 1..Len(loaded.comments) :
              \E j \in 1..Len(result.keys) :
                 result.keys[j] = DedupKey(loaded.comments[i])
        /\ NoDuplicateKeys(result.keys)

\* C3: every terminal outcome after initialisation is preceded by a
\* _save_checkpoint call holding all comments collected so far.
C3_TerminalOutcomeSaved ==
    (pc = "done" /\ result.reason # "init") =>
        /\ saves >= 1
        /\ checkpoint.exists /\ checkpoint.comments = all_comments

CutShort == lastOutcome \in {"http401", "failure"}

\* C4: run_full_analysis answers complete, partial or failed, and a harvest
\* cut short by HTTP 401 or by the retry ceiling is not answered complete.
C4_CutShortNotComplete ==
    (pc = "returned" /\ caller = "pipeline" /\ pipeline # "raised") =>
        /\ pipeline \in {"complete", "partial", "failed"}
        /\ CutShort => pipeline \in {"partial", "failed"}

\* C9: no page request is issued once max_comments > 0 comments or more are
\* collected; after a first page that fills the limit the harvest ends with
\* one request made.
C9_NoRequestPastLimit ==
    [][ /\ (pc = "loop" /\ pc' = "request") =>
            ~(max_comments > 0 /\ Len(all_comments) >= max_comments)
        /\ (pc = "loop" /\ max_comments > 0 /\ requests = 1
               /\ Len(all_comments) >= max_comments /\ pc' # "idle") =>
            (pc' = "done" /\ requests' = 1) ]_vars

\* C9 witness: the limit is reached by the first page while the source has
\* more, and the harvest ended after that single request.
C9_Witness ==
    /\ pc = "done" /\ lastOutcome = "max_reached" /\ max_comments = MaxMaxComments
    /\ requests = 1 /\ has_next /\ Len(all_comments) = max_comments
    /\ ~loaded.exists

\* C10: a recoverable failure leaves the cursor and the comment list as they
\* were, and the request that follows it carries the same cursor.
C10_FailureKeepsCursor ==
    [][ /\ (pc = "request" /\ lastOutcome' = "failure") =>
            (end_cursor' = end_cursor /\ all_comments' = all_comments)
        /\ (pc = "loop" /\ pc' = "request" /\ lastOutcome = "failure") =>
            (reqCursor' = reqCursor /\ reqCursor' = end_cursor) ]_vars

\* C10 witness: a page after the first is requested again after a timeout.
C10_Witness ==
    /\ pc = "request" /\ consecutive_errors >= 1
    /\ reqCursor # NoCursor /\ reqCursor = prevCursor
    /\ all_comments # <<>>

\* C11: on HTTP 401 the harvest ends at once: the consecutive-failure
\* counter (raised only by _handle_rate_limit, which is what sleeps) keeps
\* its value, the loop is left, and no request follows in this invocation.
C11_AuthRejectionStopsAtOnce ==
    [][ /\ (pc = "request" /\ lastOutcome' = "http401") =>
            /\ consecutive_errors' = consecutive_errors
            /\ pc' = "done"
            /\ requests' = requests /\ end_cursor' = end_cursor
        /\ lastOutcome = "http401" => pc' \notin {"loop", "request"} ]_vars

\* C11 witness: a 401 answered the request for a page after the first,
\* following an earlier recoverable failure of this invocation.
C11_Witness ==
    /\ pc = "done" /\ lastOutcome = "http401"
    /\ consecutive_errors >= 1 /\ reqCursor # NoCursor /\ requests >= 2

\* C12: a body that is not JSON, or a 200 body without the comment fields,
\* counts as a recoverable failure: the failure counter is raised, the
\* harvest is neither ended as "feed exhausted" nor ended with an error
\* result, and it stops only at the retry ceiling.
C12_MalformedPayloadIsRetried ==
    lastOutcome \in {"bad_body", "malformed"} =>
        /\ consecutive_errors >= 1
        /\ result.kind # "error"
        /\ ~(checkpoint.exists /\ checkpoint.completed)
        /\ pc \in {"done", "returned"} => ~ShouldContinue(consecutive_errors)

(***************************************************************************)
(* Properties of the backoff controller (SpecBackoff).                     *)
(***************************************************************************)
\* C6: while the un-jittered backoff of a failure is below the cap the next
\* consecutive failure waits at least as long, and the first failure after a
\* reset waits at most the floor plus 20% jitter.
C6_WaitNonDecreasing ==
    /\ (consecutive_errors >= 2
          /\ BackoffFor(current_backoff, consecutive_errors - 1)
                < max_delay_after_rate_limit) => lastWait >= prevWait
    /\ consecutive_errors = 1 =>
          lastWait <= delay_after_rate_limit + (delay_after_rate_limit * 2) \div 10

\* C6 witness: after a reset, a jittered first failure is followed by a
\* longer second wait.
C6_Witness ==
    /\ resetSeen /\ consecutive_errors = 2
    /\ prevWait > delay_after_rate_limit /\ lastWait > prevWait

\* C7: _handle_rate_limit returns False exactly when the consecutive-failure
\* count is greater than max_retries.
C7_AbortOnlyAboveCeiling ==
    consecutive_errors >= 1 =>
        (lastContinue <=> ~(consecutive_errors > max_retries))

\* C8: the wait is min(base * multiplier^(failures-1) + jitter, cap) and so
\* never exceeds max_delay_after_rate_limit.
C8_WaitCappedWithJitter ==
    consecutive_errors >= 1 =>
        /\ lastWait = Min(current_backoff
                             * Pow(backoff_multiplier, consecutive_errors - 1)
                             + lastJitter,
                          max_delay_after_rate_limit)
        /\ lastWait <= max_delay_after_rate_limit

(***************************************************************************)
(* Properties of the rate governor (SpecLimiter).                          *)
(***************************************************************************)
\* C5: with concurrent callers that each run wait_if_needed and then
\* record_request, no hourly window records more than max_per_hour requests
\* and no daily window more than max_per_day.
C5_CountsWithinCeilings ==
    /\ \A h \in Hours : hourCount[h] <= MaxPerHour
    /\ \A d \in Days : dayCount[d] <= MaxPerDay

\* C13: wait_if_needed returns (the caller goes on to its request) only
\* while the hourly and the daily counter of the current windows are below
\* max_per_hour and max_per_day.
C13_ReturnsOnlyBelowCeilings ==
    [][ \A c \in Callers :
          (cpc[c] # "request" /\ cpc'[c] = "request") =>
              /\ hourCount[HourOf(now)] < MaxPerHour
              /\ dayCount[DayOf(now)] < MaxPerDay ]_vars

(***************************************************************************)
(* Properties of the top-comment selection (SpecSelector).                 *)
(***************************************************************************)
\* C14: no two comments of a list returned by select_top_comments have a
\* word-set similarity (intersection over union of the lower-cased word
\* sets) above 0.6.
C14_NoSimilarPairSelected ==
    \A lst \in {top_positive, top_negative} :
        \A i, j \in 1..Len(lst) :
            i < j => ~AboveThreshold(TextSimilarity(lst[i].text, lst[j].text))

(***************************************************************************)
(* Properties of the viral score (SpecViral).                              *)
(***************************************************************************)
\* two calls were made
TwoViralCalls == viral_prev # NoViralCall /\ viral_cur # NoViralCall

\* the two calls differ at most in likes, the later one having no fewer
LikesRaised ==
    /\ TwoViralCalls
    /\ viral_prev.comments = viral_cur.comments
    /\ viral_prev.posted_at = viral_cur.posted_at
    /\ viral_prev.follower_count = viral_cur.follower_count
    /\ viral_prev.likes <= viral_cur.likes

\* the two calls differ at most in comments, the later one having no
\* fewer, and likes is positive
CommentsRaised ==
    /\ TwoViralCalls
    /\ viral_prev.likes = viral_cur.likes /\ viral_cur.likes > 0
    /\ viral_prev.posted_at = viral_cur.posted_at
    /\ viral_prev.follower_count = viral_cur.follower_count
    /\ viral_prev.comments <= viral_cur.comments

\* C15 (as stated): with comments, post age and follower count fixed, the
\* score for likes2 >= likes1 is at least the score for likes1.
C15_NonDecreasingInLikes ==
    LikesRaised => viral_prev.score <= viral_cur.score

\* C15 (amended): the same, for the calls in which the comment/like bonus
\* cannot fall: comments = 0, or comments >= likes2 / 2 (bonus at its cap).
C15_NonDecreasingInLikesWhileBonusCapped ==
    (LikesRaised /\ (viral_cur.comments = 0
                        \/ 2 * viral_cur.comments >= viral_cur.likes)) =>
        viral_prev.score <= viral_cur.score

\* C15 witness: more likes, comments at least half the larger like count,
\* and a higher score.
C15_Witness ==
    /\ LikesRaised /\ 0 < viral_prev.likes /\ viral_prev.likes < viral_cur.likes
    /\ viral_cur.comments > 0 /\ 2 * viral_cur.comments >= viral_cur.likes
    /\ viral_prev.score < viral_cur.score

\* a sub-score that depends on comments is below its cap in call r
CommentSubScoreBelowCap(r) ==
    \/ r.comments_score < SubScoreCap
    \/ r.likes > 0 /\ r.controversy_score < SubScoreCap
    \/ r.posted_at # NoPostedAt /\ r.velocity_score < SubScoreCap
    \/ r.follower_count > 0 /\ r.relative_score < SubScoreCap

\* C16: with likes > 0, post age and follower count fixed, the score is
\* non-decreasing in comments, and strictly higher for the larger comment
\* count when a comment-dependent sub-score of the smaller one is below 20.
C16_NonDecreasingInComments ==
    CommentsRaised =>
        /\ viral_prev.score <= viral_cur.score
        /\ (viral_prev.comments < viral_cur.comments
               /\ CommentSubScoreBelowCap(viral_prev)) =>
              viral_prev.score < viral_cur.score

\* C16 witness: 200,000 likes with 20,000 and then 100,000 comments.
C16_Witness ==
    /\ CommentsRaised
    /\ viral_cur.likes = 200000
    /\ viral_prev.comments = 20000 /\ viral_cur.comments = 100000
    /\ viral_prev.score < viral_cur.score

\* C17: the score lies in [0, 100] and each of the five sub-scores in
\* [0, 20], so the final min(score, 100) never lowers the sum.
C17_ScoreWithinRange ==
    viral_cur # NoViralCall =>
        /\ 0 <= viral_cur.score /\ viral_cur.score <= 100 * ScoreScale
        /\ \A x \in {viral_cur.likes_score, viral_cur.comments_score,
                     viral_cur.controversy_score, viral_cur.velocity_score,
                     viral_cur.relative_score} : 0 <= x /\ x <= SubScoreCap
        /\ viral_cur.score = viral_cur.likes_score + viral_cur.comments_score
                               + viral_cur.controversy_score
                               + viral_cur.velocity_score + viral_cur.relative_score

\* C17 witness: all five sub-scores are at their cap and the score is 100.
C17_Witness ==
    /\ viral_cur # NoViralCall /\ viral_cur.score = 100 * ScoreScale
    /\ viral_cur.posted_at # NoPostedAt /\ viral_cur.follower_count > 0

(***************************************************************************)
(* Properties of the controversy score (SpecControversy).                  *)
(***************************************************************************)
\* two calls were made with the same avg_toxicity
SameToxicity ==
    /\ ctr_prev # NoControversyCall /\ ctr_cur # NoControversyCall
    /\ ctr_prev.stats.avg_toxicity = ctr_cur.stats.avg_toxicity

EvenSplit(stats) == stats.positive_pct = stats.negative_pct

OnePolarityOnly(stats) == stats.positive_pct = 1000 \/ stats.negative_pct = 1000

\* C18 (as stated): for a fixed avg_toxicity no stats score higher than
\* stats with positive_pct = negative_pct, none lower than stats with one
\* polarity at 100%, and the score is in [0, 100].
C18_LargestAtEvenSplit ==
    /\ ctr_cur # NoControversyCall =>
           (0 <= ctr_cur.score /\ ctr_cur.score <= 10000)
    /\ SameToxicity =>
        /\ EvenSplit(ctr_cur.stats) => ctr_prev.score <= ctr_cur.score
        /\ OnePolarityOnly(ctr_cur.stats) => ctr_cur.score <= ctr_prev.score

\* C18 (amended): the same for stats of a non-empty list (total > 0).
C18_LargestAtEvenSplitOfNonEmpty ==
    /\ ctr_cur # NoControversyCall =>
           (0 <= ctr_cur.score /\ ctr_cur.score <= 10000)
    /\ (SameToxicity /\ ctr_cur.stats.total > 0) =>
        /\ EvenSplit(ctr_cur.stats) => ctr_prev.score <= ctr_cur.score
        /\ OnePolarityOnly(ctr_cur.stats) => ctr_cur.score <= ctr_prev.score

\* C18 witness: an evenly split list scores higher than an uneven one of
\* the same, positive toxicity, which in turn was not at 100% of one class.
C18_Witness ==
    /\ SameToxicity /\ ctr_cur.stats.avg_toxicity > 0
    /\ ctr_cur.stats.total > 0 /\ EvenSplit(ctr_cur.stats)
    /\ ctr_cur.stats.positive_pct > 0
    /\ ~EvenSplit(ctr_prev.stats) /\ ~OnePolarityOnly(ctr_prev.stats)
    /\ ctr_prev.score < ctr_cur.score

(***************************************************************************)
(* Properties of the cost-effective analysis (SpecAnalyzer).               *)
(***************************************************************************)
\* the hosted-model call raised or returned no parseable JSON object
EnhancerFailed == an_reply.kind \in {"raises", "no_json", "bad_json"}

\* C19: for a non-empty comment list whose hosted-model call raised or
\* returned no parseable JSON, full_analysis returns the full local stats
\* and a summary with a non-empty headline, and run_full_analysis does not
\* end as 'failed'.
C19_EnhancerFailureFallsBack ==
    (an_comments # <<>> /\ EnhancerFailed) =>
        /\ an_pc \in {"done", "returned"}
        /\ an_result.kind = "ok"
        /\ an_result.stats = LocalStats(an_comments)
        /\ an_result.stats.total = Len(an_comments)
        /\ an_result.stats.positive + an_result.stats.negative
              + an_result.stats.neutral = an_result.stats.total
        /\ an_result.summary.headline # ""
        /\ an_pc = "returned" => an_status = "complete"

\* C19 witness: the call raised for a celebrity without a name and the run
\* returned.
C19_Witness ==
    /\ an_pc = "returned" /\ an_reply.kind = "raises" /\ an_name = ""
    /\ Len(an_comments) >= 2 /\ an_result.stats.negative >= 1
    /\ an_result.summary.source = "fallback" /\ an_status = "complete"

\* C20: when a locally-negative comment exists, the comments written into
\* the prompt hold min(number of negatives, 20% of the sample size)
\* negatives, so at least one.
C20_NegativesInPrompt ==
    (an_pc \in {"call", "done", "returned"} /\ an_result.kind # "raised"
        /\ OfClass(an_comments, "negative") # {}) =>
        LET inPrompt == { i \in 1..Len(PromptComments(an_sample)) :
                            an_comments[PromptComments(an_sample)[i]].sentiment
                                = "negative" }
        IN  /\ inPrompt # {}
            /\ Cardinality(inPrompt)
                 = Min(Cardinality(OfClass(an_comments, "negative")), NegativeQuota)

(***************************************************************************)
(* Properties of the checkpoint file.                                      *)
(***************************************************************************)
\* C21: a _load_checkpoint that runs while a save is under way, or after a
\* crash in the middle of a save, reads a complete document, the previous
\* one or the new one, and never an empty or a cut one
C21_LoadSeesWholeDocument ==
    /\ ck_load.kind # "unreadable"
    /\ ck_load.kind = "document" => ck_load.read = Serialize(ck_load.returned)

(***************************************************************************)
(* Properties of a harvest over an existing checkpoint.                    *)
(***************************************************************************)
\* C22: a call with resume=False starts with no comments and a null cursor
\* whatever checkpoint exists, and when it has ended the checkpoint stored
\* for the shortcode was written by this call and holds its comments only
C22_FreshRunReplacesCheckpoint ==
    ~resume =>
        /\ pc = "post" =>
              all_comments = <<>> /\ end_cursor = NoCursor /\ ~loaded.exists
        /\ (pc \in {"done", "returned"} /\ checkpoint.exists) =>
              saves >= 1 /\ checkpoint.comments = all_comments

(***************************************************************************)
(* Properties of the local classifier.                                     *)
(***************************************************************************)
\* C23: _local_sentiment returns positive exactly when positive_signals >
\* negative_signals + 1, negative exactly when negative_signals >
\* positive_signals + 1 and neutral in every other case; the three cases
\* exclude one another and every pair of counts falls in one of them
C23_SentimentByLeadOfTwo ==
    ls_cur # NoSentimentCall =>
        LET p == ls_cur.naija_positive_count + ls_cur.positive_emojis
                   + (IF ls_cur.blob_score > 2 THEN 1 ELSE 0)
            n == ls_cur.naija_negative_count + ls_cur.negative_emojis
                   + (IF ls_cur.blob_score < -2 THEN 1 ELSE 0)
        IN  /\ ls_cur.sentiment \in {"positive", "negative", "neutral"}
            /\ ls_cur.sentiment = "positive" <=> p - n >= 2
            /\ ls_cur.sentiment = "negative" <=> n - p >= 2
            /\ ls_cur.sentiment = "neutral" <=> (p - n < 2 /\ n - p < 2)
            /\ ~(p - n >= 2 /\ n - p >= 2)

\* a text whose positive signals lead by exactly one is neutral
C23_Witness ==
    /\ ls_cur # NoSentimentCall
    /\ ls_cur.positive_signals = ls_cur.negative_signals + 1
    /\ ls_cur.negative_signals > 0
    /\ ls_cur.sentiment = "neutral"

(***************************************************************************)
(* Properties of full_analysis.                                            *)
(***************************************************************************)
\* C24: when full_analysis has returned, every comment it was given carries
\* one of the three sentiments, the one the local classifier gives its
\* signals, and the three class counts of stats add up to stats.total, the
\* number of comments, whatever the hosted-model call did
C24_EveryCommentClassifiedAndCounted ==
    (an_pc \in {"done", "returned"} /\ an_result.kind = "ok") =>
        /\ \A i \in 1..Len(an_comments) :
              /\ an_comments[i].sentiment \in {"positive", "negative", "neutral"}
              /\ an_comments[i].sentiment = "positive" <=>
                    an_comments[i].positive_signals
                        > an_comments[i].negative_signals + 1
              /\ an_comments[i].sentiment = "negative" <=>
                    an_comments[i].negative_signals
                        > an_comments[i].positive_signals + 1
        /\ an_result.stats.total = Len(an_comments)
        /\ an_result.stats.positive + an_result.stats.negative
              + an_result.stats.neutral = an_result.stats.total

\* the hosted model answered with JSON for comments of all three classes
C24_Witness ==
    /\ an_pc = "returned" /\ an_result.kind = "ok"
    /\ an_reply.kind = "json" /\ an_result.summary.source # "fallback"
    /\ an_result.stats.positive >= 1 /\ an_result.stats.negative >= 1
    /\ an_result.stats.neutral >= 1

(***************************************************************************)
(* Properties of what select_top_comments returns.                         *)
(***************************************************************************)
\* C25: each of the two lists returned by select_top_comments has at most
\* top_n comments, every comment of top_positive has sentiment 'positive'
\* and a toxicity below 0.3, and every returned comment has a text of
\* min_length to max_length characters
C25_SelectionWithinLimits ==
    sel_called =>
        /\ Len(top_positive) <= sel_top_n
        /\ Len(top_negative) <= sel_top_n
        /\ \A i \in 1..Len(top_positive) :
              /\ top_positive[i].sentiment = "positive"
              /\ top_positive[i].toxicity_score < 3
        /\ \A lst \in {top_positive, top_negative} :
              \A i \in 1..Len(lst) :
                  /\ CharCount(lst[i].text) >= min_length
                  /\ CharCount(lst[i].text) <= max_length

\* the call was given a positive comment of toxicity 0.3, a text that is too
\* long or too short, and more eligible positives than top_n
C25_Witness ==
    /\ sel_called /\ sel_top_n >= 1
    /\ Len(top_positive) = sel_top_n
    /\ \E i \in 1..Len(sel_comments) :
          sel_comments[i].sentiment = "positive"
              /\ sel_comments[i].toxicity_score >= 3
    /\ \E i \in 1..Len(sel_comments) :
          CharCount(sel_comments[i].text) > max_length
              \/ CharCount(sel_comments[i].text) < min_length

(***************************************************************************)
(* Properties of the controversy score as a formula.                       *)
(***************************************************************************)
\* C26: for stats of a non-empty list the controversy score is
\* (balance * 0.7 + avg_toxicity * 0.5 * 0.3) * 100 with balance =
\* 1 - |positive_pct - negative_pct| / 100, capped at 100 and rounded to
\* two decimals; for 600 positive, 150 negative and 250 neutral comments of
\* mean toxicity 0.1 the percentages are 60.0 and 15.0 and the score is 40.0
C26_ScoreFormulaAndExample ==
    \A call \in {ctr_cur, ctr_prev} :
        (call # NoControversyCall /\ call.stats.total > 0) =>
            LET gap == IF call.stats.positive_pct > call.stats.negative_pct
                       THEN call.stats.positive_pct - call.stats.negative_pct
                       ELSE call.stats.negative_pct - call.stats.positive_pct
                \* the unrounded score in thousandths
                exact == (1000 - gap) * 70 + call.stats.avg_toxicity * 15
                capped == IF exact > 100000 THEN 100000 ELSE exact
            IN  /\ 10 * call.score - capped <= 5
                /\ capped - 10 * call.score < 5
                /\ call.counts = <<600, 150, 250>> /\ call.stats.avg_toxicity = 100
                      => /\ call.stats.positive_pct = 600
                         /\ call.stats.negative_pct = 150
                         /\ call.score = 4000

\* the score of the 600/150/250 list was computed
C26_Witness ==
    /\ ctr_cur.counts = <<600, 150, 250>>
    /\ ctr_cur.stats.total = 1000
    /\ ctr_cur.score = 4000

(***************************************************************************)
(* Properties of the batch analysis.                                       *)
(***************************************************************************)
\* C27: analyze_all_comments ends whatever the hosted model replies: every
\* pass through its loop body takes at least one index out of
\* pending_indices, also when the reply is a non-empty array whose indices
\* are all outside the current batch
C27_EveryIterationSettlesAnIndex ==
    /\ [][(ra_pc = "call" /\ ra_pc' = "loop")
             => Len(pending_indices') < Len(pending_indices)]_vars
    /\ (ra_pc \in {"loop", "call"}) ~> (ra_pc = "done")

(***************************************************************************)
(* Properties of the comment list in the harvest checkpoint.               *)
(***************************************************************************)
\* C28: the comment list of every checkpoint written by scrape_all_comments
\* holds no two entries with the same comment id or, without an id, the
\* same username and first 50 characters of text, also after a resume and
\* after a page has been fetched twice
C28_CheckpointWithoutDuplicates ==
    checkpoint.exists => NoDuplicateKeys(Keys(checkpoint.comments))

\* C29: a call with resume=True that loaded a checkpoint of a completed
\* harvest issues no page request and returns the comments of the
\* checkpoint, none added
C29_CompletedHarvestNotRefetched ==
    (resume /\ loaded.exists /\ loaded.completed
        /\ pc \in {"post", "loop", "request", "done", "returned"}) =>
        /\ requests = 0
        /\ all_comments = loaded.comments
        /\ (pc \in {"done", "returned"} /\ result.kind = "ok") =>
              result.keys = Keys(Unique(loaded.comments))

(***************************************************************************)
(* Properties of the analysis of an empty harvest.                         *)
(***************************************************************************)
\* C30: for a harvest without comments full_analysis returns a result with
\* zero counts and the fallback summary, and run_full_analysis returns with
\* it; neither raises an exception
C30_EmptyHarvestGivesZeroResult ==
    (an_comments = <<>> /\ an_pc \in {"done", "returned"}
        /\ an_status # "failed") =>
        /\ an_result.kind = "ok"
        /\ an_result.stats = [total |-> 0, positive |-> 0, negative |-> 0,
                              neutral |-> 0]
        /\ an_result.summary.source = "fallback"
        /\ an_status # "raised"

(***************************************************************************)
(* Properties of what the harvest returns and keeps between calls.         *)
(***************************************************************************)
\* C31: with max_comments > 0 the comments returned by scrape_all_comments,
\* counted by total_scraped, are at most max_comments
C31_ReturnsAtMostMaxComments ==
    (pc \in {"done", "returned"} /\ result.kind = "ok" /\ max_comments > 0) =>
        Len(result.comments) <= max_comments

\* C37: every scrape_all_comments invocation begins with a consecutive-
\* failure count of zero, also on a scraper object whose previous run ended
\* with failures
C37_InvocationStartsWithoutFailures ==
    pc = "post" => consecutive_errors = 0

\* C38: enhance_with_claude marks as notable only comments that were written
\* into the prompt; an index outside 1..(comments shown) marks nothing
C38_NotableOnlyAmongPromptComments ==
    an_result.kind = "ok" =>
        an_result.notable \subseteq
            { an_sample[i] : i \in 1..Min(Len(an_sample), PromptLimit) }

(***************************************************************************)
(* Properties of the retries of one batch.                                 *)
(***************************************************************************)
\* C39: for one batch _analyze_batch calls the hosted model at most
\* max_batch_retries + 1 times under any mix of unparseable replies,
\* rate-limit errors and API errors; the last of these calls ends the batch,
\* with an empty result list when it failed too
C39_BatchCallsBounded ==
    /\ [](ra_calls <= max_batch_retries + 1)
    /\ [][(ra_pc = "call" /\ ra_calls = max_batch_retries
               /\ ra_calls' = ra_calls + 1)
             => (ra_pc' = "loop"
                   /\ (ra_errors' > 0 =>
                         \A i \in Elems(batch_indices) :
                             ra_sentiment'[i + 1] = "analysis_failed"))]_vars

C39_Witness ==
    /\ ra_pc = "loop" /\ ra_calls = max_batch_retries + 1
    /\ retry_count = max_batch_retries
    /\ batch_indices # <<>>
    /\ \A i \in Elems(batch_indices) : ra_sentiment[i + 1] = "analysis_failed"

(***************************************************************************)
(* Properties of the checkpoints saved during one invocation.              *)
(***************************************************************************)
\* C33: within one invocation every saved checkpoint's comment list extends
\* the list saved before it, its end_cursor is the cursor returned with the
\* last page whose comments are in the list, and it holds no comments of a
\* page beyond that cursor
C33_CheckpointMatchesCursor ==
    [][saves' > saves =>
          /\ checkpoint'.end_cursor = end_cursor'
          /\ Len(checkpoint'.comments) = cursor_count'
          /\ saves > 0 =>
                /\ Len(checkpoint.comments) <= Len(checkpoint'.comments)
                /\ SubSeq(checkpoint'.comments, 1, Len(checkpoint.comments))
                      = checkpoint.comments]_vars

(***************************************************************************)
(* Properties of the progress reports of an invocation.                    *)
(***************************************************************************)
\* C34: scrape_all_comments invokes progress_callback on every transition
\* of the harvest: after each parsed page, on each failure that leads to a
\* backoff and a retry, and on reaching the terminal state
C34_CallbackOnEveryTransition ==
    [][((pc = "request" /\ pc' = "loop")
           \/ (pc \in {"loop", "request"} /\ pc' = "done"))
          => called_back']_vars

(***************************************************************************)
(* Properties of the time budget of an invocation.                         *)
(***************************************************************************)
\* the time limit is met only at the top of an iteration, and only under a
\* budget that has run out
TimeLimitOnlyAtTop ==
    [][(lastOutcome' = "time_limit" /\ lastOutcome # "time_limit")
          => (pc = "loop"
                /\ ScrapeTimeExceeded(max_scrape_time_hours, elapsed_hours))]_vars

\* the stop on the time limit saves a final checkpoint of the comments
\* collected so far and returns them
TimeLimitSavesAndReturns ==
    [][(pc = "loop" /\ lastOutcome' = "time_limit")
          => /\ requests' = requests
             /\ saves' = saves + 1
             /\ checkpoint'.exists
             /\ checkpoint'.comments = all_comments
             /\ checkpoint'.end_cursor = end_cursor
             /\ pc' = "done" /\ result'.kind = "ok"
             /\ result'.comments = FormatAll(Unique(all_comments))]_vars

\* without a budget the harvest is never stopped by the time limit
NoBudgetNeverStops ==
    [](max_scrape_time_hours = 0 => lastOutcome # "time_limit")

\* C35 (as stated): the budget is compared with the elapsed time only at the
\* top of an iteration; once the budget is exceeded no further request is
\* issued, a final checkpoint is saved and the comments collected so far
\* are returned; a budget of 0 never stops the harvest
C35_NoRequestOnceBudgetExceeded ==
    /\ TimeLimitOnlyAtTop
    /\ [][(max_scrape_time_hours' > 0
             /\ elapsed_hours' >= max_scrape_time_hours')
            => requests' = requests]_vars
    /\ TimeLimitSavesAndReturns
    /\ NoBudgetNeverStops

\* C35 (amended): the budget is compared with the elapsed time only at the
\* top of an iteration; an iteration whose comparison finds the budget
\* exceeded issues no request but leaves the loop, a final checkpoint is
\* saved and the comments collected so far are returned; a budget of 0
\* never stops the harvest
C35_NoRequestOnceCheckFindsBudgetExceeded ==
    /\ TimeLimitOnlyAtTop
    /\ [][(pc = "loop"
             /\ ScrapeTimeExceeded(max_scrape_time_hours, elapsed_hours))
            => /\ requests' = requests
               /\ pc' = "done" => lastOutcome' \in {"time_limit", "max_reached"}]_vars
    /\ TimeLimitSavesAndReturns
    /\ NoBudgetNeverStops

C35_Witness ==
    /\ pc = "done" /\ lastOutcome = "time_limit"
    /\ requests > 0 /\ result.kind = "ok" /\ Len(result.comments) > 0
    /\ checkpoint.comments = all_comments

(***************************************************************************)
(* Properties of the pacing of the requests.                               *)
(***************************************************************************)
\* C32: two harvests that run at the same time under one account do not
\* together issue more than max_requests_per_hour requests inside one hour
\* window of the hourly count that each of them tests
C32_AccountWithinHourlyCap ==
    \A i \in Scrapers : seen[i] <= max_requests_per_hour

\* C36: _smart_delay takes the cooldown pause every time the number of
\* requests already made is a positive multiple of
\* requests_before_long_pause, whatever the hourly count is, and no more
\* than requests_before_long_pause requests are issued between two
\* consecutive cooldown pauses
C36_CooldownEveryNRequests ==
    /\ [][\A i \in Scrapers :
             (sd_pc[i] = "idle" /\ sd_pc'[i] # "idle") =>
                 ((sd_pc'[i] = "long_pause") <=>
                     (request_count[i] > 0
                        /\ request_count[i] % requests_before_long_pause = 0))]_vars
    /\ [](\A i \in Scrapers : since_pause[i] <= requests_before_long_pause)

C36_Witness ==
    \E i \in Scrapers :
        /\ sd_pc[i] = "long_pause"
        /\ since_pause[i] = requests_before_long_pause
        /\ request_count[i] > requests_before_long_pause
        /\ hour_request_count[i] >= max_requests_per_hour

====
